---- MODULE Spec2Model ----
(***************************************************************************)
(* Control plane of myDvpn.                                                *)
(*                                                                         *)
(* Six parts share the module, each with its own variables and its own    *)
(* specification: the coordinator (SuperNode: SpecStreams, SpecSessions,   *)
(* SpecDispatch, SpecCommands), the directory (BaseNode: SpecDirectory),   *)
(* the IP pool (IPAllocator: SpecPool), the peer's stream client           *)
(* (PersistentStreamManager: SpecClient), the unified peer (UnifiedPeer:   *)
(* SpecRoles, SpecHandlers, SpecModeLock) and the relay manager            *)
(* (RelayManager: SpecRelay).                                              *)
(*                                                                         *)
(* The coordinator.                                                        *)
(* The model follows server.StreamManager (the peer_id -> *StreamInfo      *)
(* registry), SuperNode.PersistentControlStream (one handler goroutine per *)
(* gRPC stream), SuperNode.staleStreamChecker (the 60 s ticker) and        *)
(* SuperNode.RequestExitPeer (the caller of SendCommandToPeer).            *)
(*                                                                         *)
(* StreamInfo values are heap objects reached through the registry or      *)
(* through a pointer a goroutine holds.  streams maps a peer id to the     *)
(* StreamInfo registered for it; ID is the object's address.  An object    *)
(* that left the registry is garbage unless SendCommandToPeer still holds  *)
(* it (held); activeInfos counts, per peer id, the allocated objects whose *)
(* IsActive is true, reachable or not.                                     *)
(*                                                                         *)
(* Granularity.  A step that only touches goroutine-local state is merged  *)
(* into the next step of the same goroutine that touches shared state.     *)
(* Calls that hold streamsMux for their whole body (RegisterStream,        *)
(* UnregisterStream, CheckStaleStreams) are one step.  stream.Send is two  *)
(* steps (begin, end) because nothing in the handler serializes it.        *)
(* sm.authFailures++ runs under no lock: it is a read step and a write     *)
(* step.                                                                   *)
(***************************************************************************)
EXTENDS Integers, Sequences, FiniteSets, TLC

(* ----- bounds ----- *)
MaxActiveStreams == 2   \* registrations stop once sm.activeStreams is this large
MaxTime == 240          \* seconds of wall-clock time explored
MaxCommands == 2        \* RequestExitPeer calls stop once sm.commandsProcessed is this large
MaxDirTime == 360       \* seconds of the directory's clock explored
MaxLoad == 2            \* largest CurrentLoad a coordinator declares; its MaxCapacity
AddrBits == 4           \* width of an IP address, scaled down from 32 bits
PoolBits == 3           \* most host bits of a pool's CIDR
MaxConnects == 2        \* successful connect() calls of one client
MaxClientTime == 150    \* seconds of the client's clock explored
MaxReceived == 2        \* commands the unified peer receives
MaxNATRules == 2        \* times the unified peer enters exit mode
MaxRuleCopies == 2      \* copies of one packet-filter rule in its chain

(* ----- program constants ----- *)
SessionStaleTimeout == 120    \* CheckStaleStreams(2 * time.Minute)
SessionSweepInterval == 60    \* time.NewTicker(60 * time.Second)

DirectoryQueryFreshness == 120   \* time.Now().Unix()-supernode.LastHeartbeat < 120
DirectoryTTL == 300              \* now-supernode.LastHeartbeat > 300
DirectorySweepInterval == 60     \* time.NewTicker(60 * time.Second)

BackoffInitial == 5       \* reconnectDelay: 5 * time.Second
BackoffCeiling == 60      \* if psm.reconnectDelay < 60*time.Second
HeartbeatInterval == 30   \* time.NewTicker(30 * time.Second)

\* Clock resolution of the model: time advances from one tick of the sweeper's
\* ticker to the next, and any number of steps happen at one instant, before or
\* after the sweep of that instant.
TickStep == SessionSweepInterval

Peers == {"p1", "p2"}
StreamIds == {"s1", "s2"}
Calls == {"c1", "c2"}       \* RequestExitPeer calls the gRPC server runs at a time
SuperNodeIds == {"sn1", "sn2"}
Regions == {"in", "us"}
NoRegion == ""
NoPeer == ""

RoleClient == "client"
RoleExit == "exit"
RoleSuperNode == "supernode"
RoleHybrid == "hybrid"
PeerRole == {RoleClient, RoleExit, RoleSuperNode, RoleHybrid}

\* gRPC status with which a handler ended its stream.
StatusOpen == "open"
StatusOK == "OK"
StatusUnauthenticated == "Unauthenticated"
StatusInvalidArgument == "InvalidArgument"
StatusRecvError == "RecvError"

VARIABLES
  now,            \* time.Now(), seconds
  nextSweep,      \* next tick of staleStreamChecker's ticker
  streams,        \* sm.streams: peer id -> StreamInfo, NoInfo when absent
  activeInfos,    \* per peer id: allocated StreamInfo objects with IsActive true
  activeStreams,  \* sm.activeStreams
  authFailures,   \* sm.authFailures
  pc,             \* per stream: where its handler goroutine is
  peerID,         \* per stream: the handler's local peerID
  authenticated,  \* per stream: the handler's local authenticated
  pending,        \* per stream: req.PeerId of the AuthRequest being handled
  err,            \* per stream: the error handleAuthRequest returned
  tmp,            \* per stream: sm.authFailures as read by the ++ in progress
  sending,        \* per stream: who is inside stream.Send right now
  first,          \* per stream: kind of the first frame sent on it
  fresh,          \* per stream: no message has been received on it yet
  status,         \* per stream: status the handler returned
  evictedAt,      \* per stream: when a session of it was last evicted as stale
  dpc,            \* per RequestExitPeer call: where the call is
  dpeer,          \* per RequestExitPeer call: selectedPeer.PeerID
  held,           \* per call: the StreamInfo whose mutex SendCommandToPeer holds
  commandsProcessed,  \* sm.commandsProcessed
  ctmp,           \* per call: sm.commandsProcessed as read by the ++ in progress
  dcall,          \* per RequestExitPeer call: the ClientId of its request and the sessionID it made
  minted,         \* the SessionId of every RequestExitPeerResponse with Success: true
  supernodes,     \* bn.supernodes: coordinator id -> SuperNodeInfo, NoSuperNode when absent
  unixNow,        \* time.Now().Unix() at the BaseNode
  nextCleanup,    \* next tick of cleanupStaleSupernodes' ticker
  removed,        \* ids the latest cleanup logged as "Removed stale SuperNode"
  response,       \* the RequestExitRegionResponse in flight, NoResponse when none
  cidr,           \* ia.cidr: the address and prefix length given to NewIPAllocator
  usedIPs,        \* ia.usedIPs
  leased,         \* addresses AllocateIP returned and ReleaseIP was not called for since
  lastCall,       \* the latest IPAllocator call and what it returned
  phase,          \* the client: "new", "failed" (Start returned an error) or "running"
  isConnected,    \* psm.isConnected
  reconnectDelay, \* psm.reconnectDelay, seconds
  lastHeartbeat,  \* psm.lastHeartbeat
  clientNow,      \* time.Now() at the client, seconds
  connUp,         \* the transport of psm.conn / psm.stream is open
  readers,        \* live messageHandler goroutines
  beaters,        \* live heartbeatLoop goroutines
  connects,       \* connect() calls that succeeded
  stopped,        \* Stop() has returned
  currentMode,    \* up.currentMode
  activeClients,  \* up.activeClients: client id -> ClientInfo, NoClient when absent
  ipUsed,         \* up.ipAllocator.usedIPs
  exitPeers,      \* the peers configured on the exit interface (kernel state)
  exitInterface,  \* the exit interface exists
  clientInterface, \* the client interface exists
  ipForwarding,   \* net.ipv4.ip_forward is 1
  natRules,       \* MASQUERADE rules in POSTROUTING
  currentExit,    \* up.currentExit is not nil
  upState,        \* the peer: "new", "failed" (Start returned an error), "running", "stopped"
  streamOpen,     \* the transport of the peer's stream is open
  declaredRole,   \* Role of the latest AuthRequest the peer sent
  handling,       \* the command whose handler returned and whose response is not sent yet
  sent,           \* the stream.Send calls of handleCommand, in order
  received,       \* commands the reader received
  lastReceived,   \* CommandId and Type of the latest of them
  stopTimers,     \* goroutines of handleDisconnectCommand that did not call Stop yet
  roleUpdates,    \* updateSupernodeRole goroutines that did not run yet
  lastOp,         \* the latest call of the peer's API and whether every system call in it succeeded
  modeMutex,      \* up.modeMutex: a writer holds it, and the number of readers holding it
  switching,      \* the mode the ToggleExitMode call that holds modeMutex is about to set, "" if none
  admitted,       \* the SETUP_EXIT command whose handler passed its checks and has not called addClient yet
  activeRules,    \* rm.activeRules: client id -> RelayRule, NoRule when absent
  iptables,       \* the kernel's packet-filter chains: rule -> number of copies
  relayForwarding, \* net.ipv4.ip_forward was set by the relay manager
  rulesMux,       \* rm.rulesMux: the call that holds it over several steps, "" if none
  cleanupPc,      \* the Cleanup call: "idle" or "range" (in its loop)
  lastRelay       \* the latest RelayManager call that returned and whether it returned an error

vars == <<now, nextSweep, streams, activeInfos, activeStreams, authFailures, pc, peerID,
          authenticated, pending, err, tmp, sending, first, fresh, status,
          evictedAt, dpc, dpeer, held, commandsProcessed, ctmp, dcall, minted,
          supernodes, unixNow, nextCleanup, removed, response,
          cidr, usedIPs, leased, lastCall,
          phase, isConnected, reconnectDelay, lastHeartbeat, clientNow, connUp,
          readers, beaters, connects, stopped,
          currentMode, activeClients, ipUsed, exitPeers, exitInterface, clientInterface,
          ipForwarding, natRules, currentExit, upState, streamOpen, declaredRole,
          handling, sent, received, lastReceived, stopTimers, roleUpdates, lastOp,
          modeMutex, switching, admitted,
          activeRules, iptables, relayForwarding, rulesMux, cleanupPc, lastRelay>>

smVars == <<streams, activeInfos, activeStreams>>
clockVars == <<now, nextSweep>>
dispVars == <<dpc, dpeer, held, commandsProcessed, ctmp, dcall, minted>>
superVars == <<now, nextSweep, streams, activeInfos, activeStreams, authFailures, pc, peerID,
               authenticated, pending, err, tmp, sending, first, fresh, status,
               evictedAt, dpc, dpeer, held, commandsProcessed, ctmp, dcall, minted>>
baseVars == <<supernodes, unixNow, nextCleanup, removed, response>>
poolVars == <<cidr, usedIPs, leased, lastCall>>
clientVars == <<phase, isConnected, reconnectDelay, lastHeartbeat, clientNow, connUp,
                readers, beaters, connects, stopped>>
peerVars == <<currentMode, activeClients, ipUsed, exitPeers, exitInterface, clientInterface,
              ipForwarding, natRules, currentExit, upState, streamOpen, declaredRole,
              handling, sent, received, lastReceived, stopTimers, roleUpdates, lastOp,
              modeMutex, switching, admitted>>
lockVars == <<modeMutex, switching, admitted>>
relayVars == <<activeRules, iptables, relayForwarding, rulesMux, cleanupPc, lastRelay>>

Reader == "reader"          \* the stream's handler goroutine, as a sender
Dispatcher == "dispatcher"  \* SendCommandToPeer, as a sender

(***************************************************************************)
(* StreamManager                                                           *)
(***************************************************************************)

NoInfo ==
  [ID |-> 0, PeerID |-> NoPeer, Role |-> "", Stream |-> "", LastHeartbeat |-> 0,
   IsActive |-> FALSE]

\* Addresses: one StreamInfo per peer id is registered, one is held per call, one
\* is being made.
Addresses == 1..(Cardinality(Peers) + Cardinality(Calls) + 1)

\* A free address for a new StreamInfo (the lowest, as the allocation is arbitrary).
NewAddress ==
  LET used == {streams[p].ID : p \in Peers} \cup {held[c].ID : c \in Calls}
  IN CHOOSE i \in Addresses : i \notin used /\ \A j \in Addresses : j < i => j \in used

NewStreamInfo(p, role, s) ==
  [ID |-> NewAddress, PeerID |-> p, Role |-> role, Stream |-> s, LastHeartbeat |-> now,
   IsActive |-> TRUE]

\* sm.streams has an entry for p.
Exists(p) == streams[p].ID # 0

RegisterStream_KeepsOld(p, role, s) ==
  /\ streams' = [streams EXCEPT ![p] = NewStreamInfo(p, role, s)]
  /\ activeInfos' = [activeInfos EXCEPT ![p] = @ + 1]
  /\ activeStreams' = activeStreams + 1

RegisterStream(p, role, s) ==
  LET replacing == Exists(p) /\ streams[p].IsActive
  IN /\ streams' = [streams EXCEPT ![p] = NewStreamInfo(p, role, s)]
     /\ activeInfos' = [activeInfos EXCEPT ![p] = IF replacing THEN @ - 1 + 1 ELSE @ + 1]
     /\ activeStreams' = activeStreams + 1

UnregisterStream(p) ==
  IF Exists(p)
    THEN /\ streams' = [streams EXCEPT ![p] = NoInfo]
         /\ activeInfos' = [activeInfos EXCEPT ![p] = IF streams[p].IsActive THEN @ - 1 ELSE @]
         /\ activeStreams' = activeStreams - 1
    ELSE UNCHANGED smVars

\* GetStream: p's active StreamInfo, NoInfo for (nil, false).
GetStream(p) == IF Exists(p) /\ streams[p].IsActive THEN streams[p] ELSE NoInfo

GetActiveStreams == {streams[p] : p \in {q \in Peers : Exists(q) /\ streams[q].IsActive}}

GetStreamsByRole(role) == {info \in GetActiveStreams : info.Role = role}

\* streamInfo.mutex is held from SendCommandToPeer's Lock to its deferred Unlock;
\* every other holder locks and unlocks within one step.
MutexHeld(info) == \E c \in Calls : held[c].ID # 0 /\ held[c].ID = info.ID

\* UpdateHeartbeat and UpdateCommandResult lock the mutex of p's active StreamInfo,
\* if there is one: they block while it is held.
CanLock(p) == p = NoPeer \/ ~Exists(p) \/ ~MutexHeld(GetStream(p))

\* UpdateHeartbeat(peerID, latencyMs) at time now.

UpdateHeartbeat(p) ==
  IF GetStream(p).ID # 0
    THEN streams' = [streams EXCEPT ![p].LastHeartbeat = now]
    ELSE streams' = streams

\* The peers CheckStaleStreams collects in staleStreams.
StalePeers_AtTimeout(timeout) ==
  {p \in Peers : Exists(p) /\ streams[p].IsActive
                 /\ now - streams[p].LastHeartbeat >= timeout}

StalePeers(timeout) ==
  {p \in Peers : Exists(p) /\ streams[p].IsActive
                 /\ now - streams[p].LastHeartbeat > timeout}

CheckStaleStreams(timeout) ==
  LET stale == StalePeers(timeout)
  IN /\ streams' = [p \in Peers |-> IF p \in stale THEN NoInfo ELSE streams[p]]
     /\ activeInfos' = [p \in Peers |-> IF p \in stale THEN activeInfos[p] - 1
                                                      ELSE activeInfos[p]]
     /\ activeStreams' = activeStreams - Cardinality(stale)
     /\ evictedAt' = [s \in StreamIds |->
                        IF \E p \in stale : streams[p].Stream = s THEN now ELSE evictedAt[s]]

(***************************************************************************)
(* The transport                                                           *)
(***************************************************************************)

\* The transport of s is gone: its handler returned, or a Send of the handler
\* failed and its next Recv will return the error (pc "failed").
TransportDown(s) == pc[s] \in {"done", "failed"}

\* stream.Send returned: the frame of kind k went out on s (ok), or an error came back.
Sent(s, who, k, ok) ==
  /\ ok => ~TransportDown(s)
  /\ sending' = [sending EXCEPT ![s] = @ \ {who}]
  /\ first' = IF ok /\ first[s] = "none" THEN [first EXCEPT ![s] = k] ELSE first

BeginSend(s, who) == sending' = [sending EXCEPT ![s] = @ \cup {who}]

\* stream.Recv() returned a message.
Received(s) == fresh' = [fresh EXCEPT ![s] = FALSE]

(***************************************************************************)
(* SuperNode.PersistentControlStream: the handler of stream s              *)
(***************************************************************************)

\* The message loop is blocked in stream.Recv().
Receiving(s) == pc[s] \in {"recv", "failed"}

\* A message (not EOF, not an error) can arrive.
CanDeliver(s) == pc[s] = "recv"

\* The handler returns st; its deferred function runs, and the goroutine's
\* locals end with it.
Return(s, st) ==
  /\ pc' = [pc EXCEPT ![s] = "done"]
  /\ status' = [status EXCEPT ![s] = st]
  /\ IF authenticated[s] /\ peerID[s] # NoPeer
       THEN UnregisterStream(peerID[s])
       ELSE UNCHANGED smVars
  /\ peerID' = [peerID EXCEPT ![s] = NoPeer]
  /\ authenticated' = [authenticated EXCEPT ![s] = FALSE]

PermittedRole(role) == role = RoleClient \/ role = RoleExit \/ role = RoleHybrid

\* The errors of handleAuthRequest.
NoError == ""
ErrInvalidRole == "invalid role"
ErrSignature == "signature verification failed"
ErrSendAuthResponse == "failed to send auth response"

\* handleAuthRequest returned the error e: peerID is overwritten with "", and the
\* handler reads sm.authFailures for the increment.
AuthFailed(s, e) ==
  /\ peerID' = [peerID EXCEPT ![s] = NoPeer]
  /\ err' = [err EXCEPT ![s] = e]
  /\ tmp' = [tmp EXCEPT ![s] = authFailures]
  /\ pc' = [pc EXCEPT ![s] = "incr"]
  /\ pending' = [pending EXCEPT ![s] = NoPeer]

\* case AuthRequest, up to and including RegisterStream.
RecvAuthRequest(s, p, role, sigOK) ==
  /\ CanDeliver(s)
  /\ Received(s)
  /\ IF PermittedRole(role) /\ sigOK
       THEN /\ activeStreams < MaxActiveStreams
            /\ RegisterStream(p, role, s)
            /\ pending' = [pending EXCEPT ![s] = p]
            /\ pc' = [pc EXCEPT ![s] = "authSend"]
            /\ UNCHANGED <<peerID, err, tmp>>
       ELSE /\ AuthFailed(s, IF PermittedRole(role) THEN ErrSignature ELSE ErrInvalidRole)
            /\ UNCHANGED smVars
  /\ UNCHANGED <<baseVars, poolVars, clientVars, peerVars, relayVars, clockVars, authFailures, authenticated, sending, first, status,
                 evictedAt, dispVars>>

\* handleAuthRequest enters stream.Send(response).
AuthSendBegin(s) ==
  /\ pc[s] = "authSend"
  /\ BeginSend(s, Reader)
  /\ pc' = [pc EXCEPT ![s] = "authSending"]
  /\ UNCHANGED <<baseVars, poolVars, clientVars, peerVars, relayVars, clockVars, smVars, authFailures, peerID, authenticated, pending, err, tmp,
                 first, fresh, status, evictedAt, dispVars>>

\* stream.Send(response) returns; handleAuthRequest returns to the message loop.
AuthSendEnd(s, ok) ==
  /\ pc[s] = "authSending"
  /\ Sent(s, Reader, "AuthResponse", ok)
  /\ IF ok
       THEN /\ peerID' = [peerID EXCEPT ![s] = pending[s]]
            /\ authenticated' = [authenticated EXCEPT ![s] = TRUE]
            /\ pending' = [pending EXCEPT ![s] = NoPeer]
            /\ pc' = [pc EXCEPT ![s] = "recv"]
            /\ UNCHANGED <<err, tmp>>
       ELSE /\ AuthFailed(s, ErrSendAuthResponse)
            /\ UNCHANGED authenticated
  /\ UNCHANGED <<baseVars, poolVars, clientVars, peerVars, relayVars, clockVars, smVars, authFailures, fresh, status, evictedAt, dispVars>>

\* IncrementAuthFailures writes back, and the handler returns Unauthenticated.
IncrementAuthFailures(s) ==
  /\ pc[s] = "incr"
  /\ authFailures' = tmp[s] + 1
  /\ tmp' = [tmp EXCEPT ![s] = 0]
  /\ err' = [err EXCEPT ![s] = NoError]
  /\ Return(s, StatusUnauthenticated)
  /\ UNCHANGED <<baseVars, poolVars, clientVars, peerVars, relayVars, clockVars, pending, sending, first, fresh, evictedAt, dispVars>>

\* A post-auth message kind arrived on a stream that is not authenticated.
RejectUnauthenticated(s) ==
  /\ Return(s, StatusUnauthenticated)
  /\ UNCHANGED <<sending>>

\* case PingRequest: handlePingRequest up to entering stream.Send(pong).
RecvPingRequest(s, p) ==
  /\ CanDeliver(s)
  /\ Received(s)
  /\ IF ~authenticated[s]
       THEN RejectUnauthenticated(s)
       ELSE /\ CanLock(p)
            /\ UpdateHeartbeat(p)
            /\ BeginSend(s, Reader)
            /\ pc' = [pc EXCEPT ![s] = "pongSending"]
            /\ UNCHANGED <<activeInfos, activeStreams, status, peerID, authenticated>>
  /\ UNCHANGED <<baseVars, poolVars, clientVars, peerVars, relayVars, clockVars, authFailures, pending, err, tmp, first, evictedAt, dispVars>>

\* case InfoRequest: handleInfoRequest up to entering stream.Send(info).
RecvInfoRequest(s) ==
  /\ CanDeliver(s)
  /\ Received(s)
  /\ IF ~authenticated[s]
       THEN RejectUnauthenticated(s)
       ELSE /\ BeginSend(s, Reader)
            /\ pc' = [pc EXCEPT ![s] = "infoSending"]
            /\ UNCHANGED <<smVars, status, peerID, authenticated>>
  /\ UNCHANGED <<baseVars, poolVars, clientVars, peerVars, relayVars, clockVars, authFailures, pending, err, tmp, first, evictedAt, dispVars>>

\* stream.Send of a PongResponse or InfoResponse returns; an error is only logged.
ReplySendEnd(s, ok) ==
  /\ pc[s] \in {"pongSending", "infoSending"}
  /\ Sent(s, Reader, IF pc[s] = "pongSending" THEN "PongResponse" ELSE "InfoResponse", ok)
  /\ pc' = [pc EXCEPT ![s] = IF ok THEN "recv" ELSE "failed"]
  /\ UNCHANGED <<baseVars, poolVars, clientVars, peerVars, relayVars, clockVars, smVars, authFailures, peerID, authenticated, pending, err, tmp,
                 fresh, status, evictedAt, dispVars>>

\* case CommandResponse: stream.Recv() returned a CommandResponse and
\* handleCommandResponse is called with it.
RecvCommandResponse(s) ==
  /\ CanDeliver(s)
  /\ Received(s)
  /\ IF ~authenticated[s]
       THEN RejectUnauthenticated(s)
       ELSE /\ pc' = [pc EXCEPT ![s] = "result"]
            /\ UNCHANGED <<smVars, status, peerID, authenticated>>
  /\ UNCHANGED <<baseVars, poolVars, clientVars, peerVars, relayVars, clockVars, authFailures, pending, err, tmp, sending, first, evictedAt, dispVars>>

\* handleCommandResponse: UpdateCommandResult locks the mutex of the peer's
\* StreamInfo and only updates statistics; the response reaches no caller.
UpdateCommandResult(s) ==
  /\ pc[s] = "result"
  /\ CanLock(peerID[s])
  /\ pc' = [pc EXCEPT ![s] = "recv"]
  /\ UNCHANGED <<baseVars, poolVars, clientVars, peerVars, relayVars, clockVars, smVars, authFailures, peerID, authenticated,
                 pending, err, tmp, sending, first, fresh, status, evictedAt, dispVars>>

\* default: any other payload is logged and the loop goes on.
RecvOther(s) ==
  /\ CanDeliver(s)
  /\ Received(s)
  /\ UNCHANGED <<baseVars, poolVars, clientVars, peerVars, relayVars, clockVars, smVars, authFailures, pc, peerID, authenticated, pending,
                 err, tmp, sending, first, status, evictedAt, dispVars>>

\* stream.Recv() returned io.EOF: return nil.
RecvEOF(s) ==
  /\ CanDeliver(s)
  /\ Return(s, StatusOK)
  /\ UNCHANGED <<baseVars, poolVars, clientVars, peerVars, relayVars, clockVars, authFailures, pending, err, tmp, sending, first, fresh, evictedAt, dispVars>>

\* stream.Recv() returned another error: return err.
RecvError(s) ==
  /\ Receiving(s)
  /\ Return(s, StatusRecvError)
  /\ UNCHANGED <<baseVars, poolVars, clientVars, peerVars, relayVars, clockVars, authFailures, pending, err, tmp, sending, first, fresh, evictedAt, dispVars>>


(***************************************************************************)
(* SuperNode.RequestExitPeer and StreamManager.SendCommandToPeer           *)
(***************************************************************************)

\* sessionID := fmt.Sprintf("%s-%s-%d", req.ClientId, selectedPeer.PeerID,
\* time.Now().Unix()): the three values it is made of.
NoSession == <<>>
NoCall == [ClientId |-> "", SessionId |-> NoSession]
SessionID(clientId, peer, unix) == <<clientId, peer, unix>>

\* exitPeers := GetStreamsByRole(RoleExit); allExitPeers[0] is any element of it,
\* since the slice is filled in map iteration order.  clientId is req.ClientId.
SelectExit(c, clientId) ==
  /\ dpc[c] = "idle"
  /\ commandsProcessed < MaxCommands
  /\ IF GetStreamsByRole(RoleExit) # {}
       THEN /\ \E info \in GetStreamsByRole(RoleExit) :
                 /\ dpeer' = [dpeer EXCEPT ![c] = info.PeerID]
                 /\ dcall' = [dcall EXCEPT ![c] =
                                [ClientId |-> clientId,
                                 SessionId |-> SessionID(clientId, info.PeerID, now)]]
            /\ dpc' = [dpc EXCEPT ![c] = "send"]
       ELSE /\ dpc' = [dpc EXCEPT ![c] = "hybrid"]
            /\ dpeer' = [dpeer EXCEPT ![c] = NoPeer]
            /\ dcall' = [dcall EXCEPT ![c] = [ClientId |-> clientId, SessionId |-> NoSession]]
  /\ UNCHANGED <<baseVars, poolVars, clientVars, peerVars, relayVars, clockVars, smVars, authFailures, pc, peerID, authenticated, pending,
                 err, tmp, sending, first, fresh, status, evictedAt, held,
                 commandsProcessed, ctmp, minted>>

\* hybridPeers := GetStreamsByRole(RoleHybrid), reached with exitPeers empty;
\* with no exit peer at all the reply is Success: false.
SelectHybrid(c) ==
  /\ dpc[c] = "hybrid"
  /\ IF GetStreamsByRole(RoleHybrid) # {}
       THEN /\ \E info \in GetStreamsByRole(RoleHybrid) :
                 /\ dpeer' = [dpeer EXCEPT ![c] = info.PeerID]
                 /\ dcall' = [dcall EXCEPT ![c].SessionId =
                                SessionID(dcall[c].ClientId, info.PeerID, now)]
            /\ dpc' = [dpc EXCEPT ![c] = "send"]
       ELSE /\ dpc' = [dpc EXCEPT ![c] = "idle"]
            /\ dpeer' = [dpeer EXCEPT ![c] = NoPeer]
            /\ dcall' = [dcall EXCEPT ![c] = NoCall]
  /\ UNCHANGED <<baseVars, poolVars, clientVars, peerVars, relayVars, clockVars, smVars, authFailures, pc, peerID, authenticated, pending,
                 err, tmp, sending, first, fresh, status, evictedAt, held,
                 commandsProcessed, ctmp, minted>>

\* SendCommandToPeer(selectedPeer.PeerID, setupCommand): GetStream, Lock, and
\* entry into streamInfo.Stream.Send; without an active stream it returns an error.
SendCommandBegin(c) ==
  /\ dpc[c] = "send"
  /\ LET info == GetStream(dpeer[c])
     IN IF info.ID = 0
          THEN /\ dpc' = [dpc EXCEPT ![c] = "idle"]
               /\ dpeer' = [dpeer EXCEPT ![c] = NoPeer]
               /\ dcall' = [dcall EXCEPT ![c] = NoCall]
               /\ UNCHANGED <<sending, held>>
          ELSE /\ ~MutexHeld(info)
               /\ BeginSend(info.Stream, Dispatcher)
               /\ dpc' = [dpc EXCEPT ![c] = "sending"]
               /\ held' = [held EXCEPT ![c] = info]
               /\ UNCHANGED <<dpeer, dcall>>
  /\ UNCHANGED <<baseVars, poolVars, clientVars, peerVars, relayVars, clockVars, smVars, authFailures, pc, peerID, authenticated, pending,
                 err, tmp, first, fresh, status, evictedAt, commandsProcessed, ctmp, minted>>

\* streamInfo.Stream.Send(message) returns.  With an error (the transport is
\* gone) the call returns it and the deferred Unlock runs; sm.commandsFailed is
\* not part of the model.  Otherwise sm.commandsProcessed++ starts: it runs
\* under the mutex of this StreamInfo only, so it is a read step and a write step.
SendCommandEnd(c) ==
  /\ dpc[c] = "sending"
  /\ LET ok == ~TransportDown(held[c].Stream)
     IN /\ Sent(held[c].Stream, Dispatcher, "Command", ok)
        /\ IF ok
             THEN /\ ctmp' = [ctmp EXCEPT ![c] = commandsProcessed]
                  /\ dpc' = [dpc EXCEPT ![c] = "count"]
                  /\ UNCHANGED <<dpeer, held, dcall>>
             ELSE /\ dpc' = [dpc EXCEPT ![c] = "idle"]
                  /\ dpeer' = [dpeer EXCEPT ![c] = NoPeer]
                  /\ held' = [held EXCEPT ![c] = NoInfo]
                  /\ dcall' = [dcall EXCEPT ![c] = NoCall]
                  /\ UNCHANGED ctmp
  /\ UNCHANGED <<baseVars, poolVars, clientVars, peerVars, relayVars, clockVars, smVars, authFailures, pc, peerID, authenticated, pending,
                 err, tmp, fresh, status, evictedAt, commandsProcessed, minted>>

\* sm.commandsProcessed++ writes back; SendCommandToPeer returns nil and the
\* deferred Unlock runs; RequestExitPeer answers Success: true with sessionID.
CountCommand(c) ==
  /\ dpc[c] = "count"
  /\ commandsProcessed' = ctmp[c] + 1
  /\ ctmp' = [ctmp EXCEPT ![c] = 0]
  /\ dpc' = [dpc EXCEPT ![c] = "idle"]
  /\ dpeer' = [dpeer EXCEPT ![c] = NoPeer]
  /\ held' = [held EXCEPT ![c] = NoInfo]
  /\ minted' = minted \cup {dcall[c].SessionId}
  /\ dcall' = [dcall EXCEPT ![c] = NoCall]
  /\ UNCHANGED <<baseVars, poolVars, clientVars, peerVars, relayVars, clockVars, smVars, authFailures, pc, peerID, authenticated, pending,
                 err, tmp, sending, first, fresh, status, evictedAt>>

(***************************************************************************)
(* SuperNode.staleStreamChecker and the clock                              *)
(***************************************************************************)

\* The ticker fires: CheckStaleStreams(2 * time.Minute).
StaleSweep ==
  /\ now = nextSweep
  /\ CheckStaleStreams(SessionStaleTimeout)
  /\ nextSweep' = nextSweep + SessionSweepInterval
  /\ UNCHANGED <<baseVars, poolVars, clientVars, peerVars, relayVars, now, authFailures, pc, peerID, authenticated, pending, err, tmp, sending,
                 first, fresh, status, dispVars>>

\* Every handler is blocked in stream.Recv() or has returned, and no
\* RequestExitPeer call is in flight.
Quiescent ==
  /\ \A c \in Calls : dpc[c] = "idle"
  /\ \A s \in StreamIds : pc[s] \in {"recv", "failed", "done"}

\* Time passes, but not past a tick of the sweeper's ticker.  The steps of a
\* handler take no time at the clock's resolution: time passes between them only
\* while the goroutines wait.
Tick ==
  /\ Quiescent
  /\ now + TickStep <= nextSweep
  /\ now + TickStep <= MaxTime
  /\ now' = now + TickStep
  /\ UNCHANGED <<baseVars, poolVars, clientVars, peerVars, relayVars, nextSweep, smVars, authFailures, pc, peerID, authenticated, pending,
                 err, tmp, sending, first, fresh, status, evictedAt, dispVars>>

(***************************************************************************)
(* BaseNode: the directory of coordinators                                 *)
(***************************************************************************)

NoSuperNode ==
  [SupernodeId |-> "", Region |-> NoRegion, CurrentLoad |-> 0, MaxCapacity |-> 0,
   LastHeartbeat |-> 0]

NoResponse == [TargetRegion |-> NoRegion, CandidateSupernodes |-> <<>>]

\* No RequestExitRegion call is between computing its response and returning
\* it: the call holds supernodesMux until it returns, and returns at once.
NoCallInFlight == response = NoResponse

\* bn.supernodes has an entry for id.
Registered(id) == supernodes[id].SupernodeId # ""

\* RegisterSuperNode: update or create the entry, stamped with the current time.
\* A request without a region is refused with InvalidArgument and changes nothing.
RegisterSuperNode(id, region, load, capacity) ==
  /\ NoCallInFlight
  /\ IF region = NoRegion
       THEN UNCHANGED supernodes
       ELSE supernodes' = [supernodes EXCEPT ![id] =
              [SupernodeId |-> id, Region |-> region, CurrentLoad |-> load,
               MaxCapacity |-> capacity, LastHeartbeat |-> unixNow]]
  /\ UNCHANGED <<superVars, poolVars, clientVars, peerVars, relayVars, unixNow, nextCleanup, removed, response>>

\* The test RequestExitRegion applies to each entry of the map.
IsCandidate_NoFreshness(sn, region) ==
  /\ sn.Region = region
  /\ sn.CurrentLoad < sn.MaxCapacity

IsCandidate(sn, region) ==
  /\ sn.Region = region
  /\ sn.CurrentLoad < sn.MaxCapacity
  /\ unixNow - sn.LastHeartbeat < DirectoryQueryFreshness

\* The orders in which ranging over the map can append the entries of S.
IterationOrders(S) ==
  {q \in [1..Cardinality(S) -> S] : \A i, j \in 1..Cardinality(S) : q[i] = q[j] => i = j}

Swap(c, i, j) == [c EXCEPT ![i] = c[j], ![j] = c[i]]

\* The nested loops over i and j > i, from the position (i, j) on: candidates[i]
\* and candidates[j] are exchanged when candidates[i].CurrentLoad is the larger.
RECURSIVE SortLoops(_, _, _)
SortLoops(c, i, j) ==
  IF i > Len(c) THEN c
  ELSE IF j > Len(c) THEN SortLoops(c, i + 1, i + 2)
  ELSE SortLoops(IF c[i].CurrentLoad > c[j].CurrentLoad THEN Swap(c, i, j) ELSE c, i, j + 1)

SortByLoad(c) == IF Len(c) > 1 THEN SortLoops(c, 1, 2) ELSE c

\* RequestExitRegion: the candidates of the region, collected in map iteration
\* order and sorted by load.  Without a region the call fails with InvalidArgument.
RequestExitRegion(region) ==
  /\ NoCallInFlight
  /\ IF region = NoRegion
       THEN UNCHANGED response
       ELSE \E q \in IterationOrders({supernodes[id] :
                        id \in {i \in SuperNodeIds : Registered(i) /\ IsCandidate(supernodes[i], region)}}) :
              response' = [TargetRegion |-> region, CandidateSupernodes |-> SortByLoad(q)]
  /\ UNCHANGED <<superVars, poolVars, clientVars, peerVars, relayVars, supernodes, unixNow, nextCleanup, removed>>

\* The caller has taken the response.
ResponseReturned ==
  /\ response # NoResponse
  /\ response' = NoResponse
  /\ UNCHANGED <<superVars, poolVars, clientVars, peerVars, relayVars, supernodes, unixNow, nextCleanup, removed>>

\* The ids cleanupStaleSupernodes collects in staleSupernodes.
StaleSupernodes_AtTTL ==
  {id \in SuperNodeIds : Registered(id) /\ unixNow - supernodes[id].LastHeartbeat >= DirectoryTTL}

StaleSupernodes ==
  {id \in SuperNodeIds : Registered(id) /\ unixNow - supernodes[id].LastHeartbeat > DirectoryTTL}

\* One round of cleanupStaleSupernodes, at a tick of its ticker.
CleanupStaleSupernodes ==
  /\ NoCallInFlight
  /\ unixNow = nextCleanup
  /\ supernodes' = [id \in SuperNodeIds |->
                      IF id \in StaleSupernodes THEN NoSuperNode ELSE supernodes[id]]
  /\ removed' = StaleSupernodes
  /\ nextCleanup' = nextCleanup + DirectorySweepInterval
  /\ UNCHANGED <<superVars, poolVars, clientVars, peerVars, relayVars, unixNow, response>>

\* Clock resolution at the BaseNode: half a period of the cleanup ticker.
DirTickStep == DirectorySweepInterval \div 2

\* Time passes at the BaseNode, but not past a tick of the cleanup ticker.
DirTick ==
  /\ NoCallInFlight
  /\ unixNow + DirTickStep <= nextCleanup
  /\ unixNow + DirTickStep <= MaxDirTime
  /\ unixNow' = unixNow + DirTickStep
  /\ UNCHANGED <<superVars, poolVars, clientVars, peerVars, relayVars, supernodes, nextCleanup, removed, response>>

(***************************************************************************)
(* utils.AllocateClientIP and IPAllocator                                  *)
(***************************************************************************)

RECURSIVE Pow2(_)
Pow2(n) == IF n = 0 THEN 1 ELSE 2 * Pow2(n - 1)

\* IP addresses as numbers of AddrBits bits.
Addrs == 0..(Pow2(AddrBits) - 1)

\* Prefix lengths of the pools: at most PoolBits host bits, and never /0.
PrefixLens == (IF AddrBits - PoolBits > 1 THEN AddrBits - PoolBits ELSE 1)..AddrBits

\* ip.Mask(ipNet.Mask): the host bits of ip cleared.
Mask(ip, len) == ip - (ip % Pow2(AddrBits - len))

\* net.ParseCIDR: the network, with IP the masked address.
ParseCIDR(c) == [IP |-> Mask(c.IP, c.Len), Len |-> c.Len]

\* ipNet.Contains(ip)
Contains(ipNet, ip) == Mask(ip, ipNet.Len) = ipNet.IP

\* incIP: add one, with the carry running out of the most significant byte.
incIP_ByTwo(ip) == (ip + 2) % Pow2(AddrBits)

incIP(ip) == (ip + 1) % Pow2(AddrBits)

\* getBroadcast: every host bit of the network address set.
getBroadcast_AsNetwork(ipNet) == ipNet.IP

getBroadcast(ipNet) == ipNet.IP + Pow2(AddrBits - ipNet.Len) - 1

\* What AllocateClientIP returns: an address, or an error.
NoAddress == [ip |-> 0, ok |-> FALSE]
Address(ip) == [ip |-> ip, ok |-> TRUE]

\* The loop of AllocateClientIP from ip on.
RECURSIVE ScanFrom(_, _, _)
ScanFrom(ipNet, used, ip) ==
  IF ~Contains(ipNet, ip) THEN NoAddress
  ELSE IF ip = ipNet.IP \/ ip = getBroadcast(ipNet) THEN ScanFrom(ipNet, used, incIP(ip))
  ELSE IF ip \notin used THEN Address(ip)
  ELSE ScanFrom(ipNet, used, incIP(ip))

AllocateClientIP(c, used) ==
  LET ipNet == ParseCIDR(c)
  IN ScanFrom(ipNet, used, Mask(ipNet.IP, ipNet.Len))

\* No IPAllocator has been made yet.
NoCIDR == [IP |-> 0, Len |-> 0]

\* NewIPAllocator(cidr), the address of the CIDR being the network address
\* ("10.9.0.0/24") or the one after it ("10.9.0.1/24").
NewIPAllocator(ip, len) ==
  /\ cidr = NoCIDR
  /\ ip - Mask(ip, len) <= 1
  /\ cidr' = [IP |-> ip, Len |-> len]
  /\ usedIPs' = {}
  /\ leased' = {}
  /\ lastCall' = [op |-> "NewIPAllocator", ip |-> 0, ok |-> TRUE]
  /\ UNCHANGED <<superVars, baseVars, clientVars, peerVars, relayVars>>

\* IPAllocator.AllocateIP, under ia.mutex.
AllocateIP ==
  LET r == AllocateClientIP(cidr, usedIPs)
  IN /\ cidr # NoCIDR
     /\ usedIPs' = IF r.ok THEN usedIPs \cup {r.ip} ELSE usedIPs
     /\ leased' = IF r.ok THEN leased \cup {r.ip} ELSE leased
     /\ lastCall' = [op |-> "AllocateIP", ip |-> r.ip, ok |-> r.ok]
     /\ UNCHANGED <<superVars, baseVars, clientVars, peerVars, relayVars, cidr>>

\* IPAllocator.ReleaseIP(ip), under ia.mutex.
ReleaseIP(ip) ==
  /\ cidr # NoCIDR
  /\ usedIPs' = usedIPs \ {ip}
  /\ leased' = leased \ {ip}
  /\ lastCall' = [op |-> "ReleaseIP", ip |-> 0, ok |-> TRUE]
  /\ UNCHANGED <<superVars, baseVars, clientVars, peerVars, relayVars, cidr>>

(***************************************************************************)
(* PersistentStreamManager: the peer's stream client                       *)
(*                                                                         *)
(* connect() is one step whose outcome the coordinator decides.  The       *)
(* sleeps of reconnectLoop are not timed: it looks at isConnected at any   *)
(* moment.  A heartbeatLoop's ticker fires at any moment.                  *)
(***************************************************************************)

\* connect() succeeded: a new connection and stream, isConnected and lastHeartbeat set.
Connected ==
  /\ isConnected' = TRUE
  /\ lastHeartbeat' = clientNow
  /\ connUp' = TRUE
  /\ connects' = connects + 1

\* go psm.messageHandler(); go psm.heartbeatLoop()
SpawnLoops ==
  /\ readers' = readers + 1
  /\ beaters' = beaters + 1

\* Start(): the first connect(); without it Start returns the error and starts
\* no goroutine.
Start(ok) ==
  /\ phase = "new"
  /\ IF ok
       THEN /\ Connected
            /\ SpawnLoops
            /\ phase' = "running"
       ELSE /\ phase' = "failed"
            /\ UNCHANGED <<isConnected, lastHeartbeat, connUp, connects, readers, beaters>>
  /\ UNCHANGED <<superVars, baseVars, poolVars, peerVars, relayVars, reconnectDelay, clientNow, stopped>>

\* Stop()
Stop ==
  /\ phase = "running"
  /\ ~stopped
  /\ isConnected' = FALSE
  /\ connUp' = FALSE
  /\ stopped' = TRUE
  /\ UNCHANGED <<superVars, baseVars, poolVars, peerVars, relayVars, phase, reconnectDelay, lastHeartbeat,
                 clientNow, readers, beaters, connects>>

\* The coordinator or the network ends the connection.
ConnectionLost ==
  /\ connUp
  /\ connUp' = FALSE
  /\ UNCHANGED <<superVars, baseVars, poolVars, peerVars, relayVars, phase, isConnected, reconnectDelay,
                 lastHeartbeat, clientNow, readers, beaters, connects, stopped>>

\* messageHandler: stream.Recv() returned a PongResponse; handlePongResponse.
RecvPongResponse ==
  /\ readers > 0
  /\ connUp
  /\ lastHeartbeat' = clientNow
  /\ UNCHANGED <<superVars, baseVars, poolVars, peerVars, relayVars, phase, isConnected, reconnectDelay,
                 clientNow, connUp, readers, beaters, connects, stopped>>

\* messageHandler: stream.Recv() returned io.EOF or an error; the loop ends.
RecvFailed ==
  /\ readers > 0
  /\ ~connUp
  /\ isConnected' = FALSE
  /\ readers' = readers - 1
  /\ UNCHANGED <<superVars, baseVars, poolVars, peerVars, relayVars, phase, reconnectDelay, lastHeartbeat,
                 clientNow, connUp, beaters, connects, stopped>>

\* heartbeatLoop: the ticker fires, sendHeartbeat runs, and the loop tests
\* psm.isConnected again.
Heartbeat ==
  /\ beaters > 0
  /\ isConnected' = (isConnected /\ connUp)
  /\ beaters' = IF isConnected /\ connUp THEN beaters ELSE beaters - 1
  /\ UNCHANGED <<superVars, baseVars, poolVars, peerVars, relayVars, phase, reconnectDelay, lastHeartbeat,
                 clientNow, connUp, readers, connects, stopped>>

\* The exponential backoff of reconnectLoop after a failed connect().
Backoff(delay) == IF delay < BackoffCeiling THEN delay * 2 ELSE delay

\* reconnectLoop: one round of the loop that finds the client disconnected.
Reconnect(ok) ==
  /\ phase = "running"
  /\ ~isConnected
  /\ IF ok
       THEN /\ connects < MaxConnects
            /\ Connected
            /\ SpawnLoops
            /\ reconnectDelay' = BackoffInitial
       ELSE /\ reconnectDelay' = Backoff(reconnectDelay)
            /\ UNCHANGED <<isConnected, lastHeartbeat, connUp, connects, readers, beaters>>
  /\ UNCHANGED <<superVars, baseVars, poolVars, peerVars, relayVars, phase, clientNow, stopped>>

\* Time passes at the client.
ClientTick ==
  /\ clientNow + HeartbeatInterval <= MaxClientTime
  /\ clientNow' = clientNow + HeartbeatInterval
  /\ UNCHANGED <<superVars, baseVars, poolVars, peerVars, relayVars, phase, isConnected, reconnectDelay,
                 lastHeartbeat, connUp, readers, beaters, connects, stopped>>

(***************************************************************************)
(* UnifiedPeer: the role controller, its exit-mode data plane and the      *)
(* command handlers it registers with its PersistentStreamManager          *)
(*                                                                         *)
(* ToggleExitMode holds modeMutex for its whole body and the SETUP_EXIT    *)
(* handler holds it for reading, addClient holds clientsMux: each is one   *)
(* step.  handleCommand is two steps, the handler and stream.Send, with    *)
(* the goroutine a DISCONNECT handler starts running beside them.  The      *)
(* outcomes of the exit-mode system calls (ip, wg, iptables, sysctl) are   *)
(* inputs.                                                                 *)
(***************************************************************************)

ModeClient == "client"
ModeExit == "exit"
ModeHybrid == "hybrid"
PeerMode == {ModeClient, ModeExit, ModeHybrid}

CommandType_SETUP_EXIT == "SETUP_EXIT"
CommandType_ROTATE_PEER == "ROTATE_PEER"
CommandType_RELAY_SETUP == "RELAY_SETUP"
CommandType_DISCONNECT == "DISCONNECT"
\* A value of the CommandType enum no handler is registered for.
CommandType_Unregistered == "UNREGISTERED"

\* psm.commandHandlers after registerCommandHandlers.
commandHandlers ==
  {CommandType_SETUP_EXIT, CommandType_ROTATE_PEER, CommandType_RELAY_SETUP,
   CommandType_DISCONNECT}

ClientIds == {"k1", "k2"}
\* Keys wgtypes.ParseKey accepts, one per client, and one it rejects.
KeyOf(k) == IF k = "k1" THEN "pk1" ELSE "pk2"
InvalidKey == "bad"
CommandIds == {"cmd1", "cmd2"}

\* cmd.Payload: a Go map, where a missing key reads as "".
Payload(clientID, clientPubKey, sessionID, allowedIPs) ==
  [client_id |-> clientID, client_pubkey |-> clientPubKey,
   session_id |-> sessionID, allowed_ips |-> allowedIPs]
NoPayload == Payload("", "", "", "")

Command(id, type, payload) == [CommandId |-> id, Type |-> type, Payload |-> payload]

\* The SETUP_EXIT command RequestExitPeer builds for req.ClientId.
setupCommand(id, clientID) ==
  Command(id, CommandType_SETUP_EXIT, Payload(clientID, "", "s1", "0.0.0.0/0"))

\* Commands a coordinator can put on the peer's stream.
Commands ==
  {setupCommand(id, k) : id \in CommandIds, k \in ClientIds}
    \cup {Command(id, CommandType_SETUP_EXIT, Payload(k, KeyOf(k), "s1", "0.0.0.0/0")) :
            id \in CommandIds, k \in ClientIds}
    \cup {Command(id, CommandType_SETUP_EXIT, Payload(k, InvalidKey, "s1", "0.0.0.0/0")) :
            id \in CommandIds, k \in ClientIds}
    \cup {Command(id, t, NoPayload) :
            id \in CommandIds,
            t \in {CommandType_ROTATE_PEER, CommandType_RELAY_SETUP,
                   CommandType_DISCONNECT, CommandType_Unregistered}}

CommandResponse(cmd, success, message) ==
  [CommandId |-> cmd.CommandId, Success |-> success, Message |-> message]

NoCommand == [cmd |-> Command("", "", NoPayload), response |-> CommandResponse(Command("", "", NoPayload), FALSE, "")]
NoClient == [PublicKey |-> "", AllocatedIP |-> 0, SessionID |-> ""]
NoOp == [op |-> "", clean |-> TRUE]

\* NewIPAllocator("10.9.0.0/24"): the exit-mode pool.
ExitCIDR == [IP |-> 0, Len |-> AddrBits - PoolBits]

\* getCurrentRole
getCurrentRole ==
  CASE currentMode = ModeClient -> RoleClient
    [] currentMode = ModeExit -> RoleExit
    [] currentMode = ModeHybrid -> RoleHybrid
    [] OTHER -> RoleClient

\* The role NewUnifiedPeer hands to NewPersistentStreamManager: the role of
\* ModeClient, kept in psm.role from then on.
psmRole == RoleClient

ActiveIds == {k \in ClientIds : activeClients[k] # NoClient}

peerStreamVars == <<streamOpen, declaredRole>>
commandVars == <<handling, sent, received, lastReceived, stopTimers>>
exitVars == <<activeClients, ipUsed, exitPeers, exitInterface>>
natVars == <<ipForwarding, natRules>>

\* UnifiedPeer.Start: streamManager.Start (the AuthRequest carries psm.role),
\* then initializeClientMode.
UnifiedPeerStart(ok, ifaceOK) ==
  /\ upState = "new"
  /\ IF ok
       THEN /\ upState' = "running"
            /\ streamOpen' = TRUE
            /\ declaredRole' = psmRole
            /\ clientInterface' = ifaceOK
       ELSE /\ upState' = "failed"
            /\ UNCHANGED <<streamOpen, declaredRole, clientInterface>>
  /\ lastOp' = [op |-> "Start", clean |-> ok /\ ifaceOK]
  /\ UNCHANGED <<superVars, baseVars, poolVars, clientVars, relayVars, lockVars, currentMode, exitVars,
                 natVars, currentExit, commandVars, roleUpdates>>

\* The stream to the coordinator breaks.
StreamLost ==
  /\ streamOpen
  /\ streamOpen' = FALSE
  /\ UNCHANGED <<superVars, baseVars, poolVars, clientVars, relayVars, lockVars, currentMode, exitVars,
                 natVars, currentExit, clientInterface, upState, declaredRole,
                 commandVars, roleUpdates, lastOp>>

\* reconnectLoop: connect() authenticates again, with psm.role.
StreamReconnect ==
  /\ upState \in {"running", "stopped"}
  /\ ~streamOpen
  /\ streamOpen' = TRUE
  /\ declaredRole' = psmRole
  /\ UNCHANGED <<superVars, baseVars, poolVars, clientVars, relayVars, lockVars, currentMode, exitVars,
                 natVars, currentExit, clientInterface, upState,
                 commandVars, roleUpdates, lastOp>>

\* up.modeMutex.Lock() returns: no writer and no reader holds the mutex.
ModeLockFree_NoWait == TRUE

ModeLockFree == ~modeMutex.writer /\ modeMutex.readers = 0

\* up.modeMutex.RLock() returns: no writer holds the mutex.
ModeRLockFree == ~modeMutex.writer

\* The address SetInterfaceIP gives the exit interface ("10.9.0.1/24" of the
\* pool 10.9.0.0/24): the first host address of the pool's network.
ExitInterfaceIP == ExitCIDR.IP + 1

\* What can go wrong in initializeExitMode: nothing, or one of its calls.
\* "add" is ip link add failing (CreateInterface goes on and fails at link
\* set up), "up" is link set up failing with the interface made.
InitFailures == {"none", "add", "up", "key", "port", "ip", "forwarding", "nat"}

\* initializeExitMode: every call before the failing one has happened, and no
\* failure undoes any of them.  CreateInterface returns nil at once for an
\* interface that exists.
initializeExitMode(fail) ==
  /\ exitInterface => fail \notin {"add", "up"}
  /\ exitInterface' = (exitInterface \/ fail # "add")
  /\ ipForwarding' = (ipForwarding \/ fail \in {"none", "nat"})
  /\ natRules' = IF fail = "none" THEN natRules + 1 ELSE natRules

\* wgManager.RemovePeer fails for the clients of F: for any of them while the
\* interface exists, for all of them once it is gone.
RemoveFailures == IF exitInterface THEN SUBSET ActiveIds ELSE {ActiveIds}

\* cleanupExitMode: removeClientUnsafe for every active client (a failed
\* RemovePeer leaves the client and its address in place), then DeleteInterface.
cleanupExitMode(F, delOK) ==
  LET gone == ActiveIds \ F
  IN /\ activeClients' = [k \in ClientIds |-> IF k \in gone THEN NoClient ELSE activeClients[k]]
     /\ ipUsed' = ipUsed \ {activeClients[k].AllocatedIP : k \in gone}
     /\ IF exitInterface /\ delOK
          THEN /\ exitInterface' = FALSE
               /\ exitPeers' = {}
          ELSE /\ exitInterface' = exitInterface
               /\ exitPeers' = {p \in exitPeers : \A k \in gone : p.PublicKey # activeClients[k].PublicKey}

\* switchToExitMode
switchToExitMode(fail) ==
  IF currentMode \in {ModeExit, ModeHybrid}
    THEN /\ fail = "none"
         /\ lastOp' = [op |-> "switchToExitMode", clean |-> TRUE]
         /\ UNCHANGED <<currentMode, exitVars, natVars, roleUpdates>>
    ELSE /\ natRules < MaxNATRules
         /\ initializeExitMode(fail)
         /\ currentMode' = IF fail = "none" THEN ModeExit ELSE currentMode
         /\ roleUpdates' = IF fail = "none" THEN roleUpdates + 1 ELSE roleUpdates
         /\ lastOp' = [op |-> "switchToExitMode", clean |-> fail = "none"]
         /\ UNCHANGED <<activeClients, ipUsed, exitPeers>>

\* switchToClientMode
switchToClientMode(F, delOK) ==
  IF currentMode = ModeClient
    THEN /\ F = {}
         /\ delOK
         /\ lastOp' = [op |-> "switchToClientMode", clean |-> TRUE]
         /\ UNCHANGED <<currentMode, exitVars, natVars, roleUpdates>>
    ELSE /\ F \in RemoveFailures
         /\ cleanupExitMode(F, delOK)
         /\ currentMode' = ModeClient
         /\ roleUpdates' = roleUpdates + 1
         /\ lastOp' = [op |-> "switchToClientMode", clean |-> F = {} /\ delOK]
         /\ UNCHANGED natVars

\* ToggleExitMode(enabled), under modeMutex.
ToggleExitMode(enabled, fail, F, delOK) ==
  /\ upState = "running"
  /\ ModeLockFree
  /\ IF enabled
       THEN /\ F = {}
            /\ delOK
            /\ switchToExitMode(fail)
       ELSE /\ fail = "none"
            /\ switchToClientMode(F, delOK)
  /\ UNCHANGED <<superVars, baseVars, poolVars, clientVars, relayVars, lockVars, currentExit,
                 clientInterface, upState, peerStreamVars, commandVars>>

\* go up.updateSupernodeRole(): the goroutine logs the new role and ends.
updateSupernodeRole ==
  /\ roleUpdates > 0
  /\ roleUpdates' = roleUpdates - 1
  /\ lastOp' = [op |-> "updateSupernodeRole", clean |-> TRUE]
  /\ UNCHANGED <<superVars, baseVars, poolVars, clientVars, relayVars, lockVars, currentMode, exitVars,
                 natVars, currentExit, clientInterface, upState, peerStreamVars,
                 commandVars>>

\* ConnectToExit(targetRegion): refused outside client and hybrid mode; the
\* placeholder exit config becomes currentExit.
ConnectToExit ==
  /\ upState = "running"
  /\ ModeRLockFree
  /\ currentExit' = IF currentMode \in {ModeClient, ModeHybrid} THEN TRUE ELSE currentExit
  /\ lastOp' = [op |-> "ConnectToExit", clean |-> currentMode \in {ModeClient, ModeHybrid}]
  /\ UNCHANGED <<superVars, baseVars, poolVars, clientVars, relayVars, lockVars, currentMode, exitVars,
                 natVars, clientInterface, upState, peerStreamVars, commandVars,
                 roleUpdates>>

\* DisconnectFromExit
DisconnectFromExit ==
  /\ upState = "running"
  /\ currentExit
  /\ currentExit' = FALSE
  /\ lastOp' = [op |-> "DisconnectFromExit", clean |-> TRUE]
  /\ UNCHANGED <<superVars, baseVars, poolVars, clientVars, relayVars, lockVars, currentMode, exitVars,
                 natVars, clientInterface, upState, peerStreamVars, commandVars,
                 roleUpdates>>

\* The error addClient returns, "" for none.  wgManager.AddPeer fails for a key
\* that does not parse, without the interface, or when configuring fails (devOK).
addClientError(clientID, clientPubKey, devOK) ==
  IF activeClients[clientID] # NoClient THEN "already exists"
  ELSE IF ~AllocateClientIP(ExitCIDR, ipUsed).ok THEN "failed to allocate IP"
  ELSE IF clientPubKey = InvalidKey \/ ~exitInterface \/ ~devOK
    THEN "failed to add peer to WireGuard"
  ELSE ""

\* addClient, under clientsMux: the address taken for a peer that could not be
\* added is released again.
addClient_NoRelease(clientID, clientPubKey, sessionID, devOK) ==
  LET r == AllocateClientIP(ExitCIDR, ipUsed)
      error == addClientError(clientID, clientPubKey, devOK)
  IN /\ activeClients' = IF error = ""
                           THEN [activeClients EXCEPT ![clientID] =
                                   [PublicKey |-> clientPubKey, AllocatedIP |-> r.ip,
                                    SessionID |-> sessionID]]
                           ELSE activeClients
     /\ ipUsed' = IF error \in {"", "failed to add peer to WireGuard"}
                    THEN ipUsed \cup {r.ip} ELSE ipUsed
     /\ exitPeers' = IF error = ""
                       THEN exitPeers \cup {[PublicKey |-> clientPubKey, AllowedIP |-> r.ip]}
                       ELSE exitPeers

addClient(clientID, clientPubKey, sessionID, devOK) ==
  LET r == AllocateClientIP(ExitCIDR, ipUsed)
  IN IF addClientError(clientID, clientPubKey, devOK) = ""
       THEN /\ activeClients' = [activeClients EXCEPT ![clientID] =
                                   [PublicKey |-> clientPubKey, AllocatedIP |-> r.ip,
                                    SessionID |-> sessionID]]
            /\ ipUsed' = ipUsed \cup {r.ip}
            /\ exitPeers' = exitPeers \cup {[PublicKey |-> clientPubKey, AllowedIP |-> r.ip]}
       ELSE UNCHANGED <<activeClients, ipUsed, exitPeers>>

\* What the SETUP_EXIT handler answers.
handleSetupExitResponse(cmd, devOK) ==
  LET clientID == cmd.Payload.client_id
      clientPubKey == cmd.Payload.client_pubkey
      sessionID == cmd.Payload.session_id
  IN IF currentMode # ModeExit /\ currentMode # ModeHybrid
       THEN CommandResponse(cmd, FALSE, "Peer is not in exit mode")
     ELSE IF clientID = "" \/ clientPubKey = "" \/ sessionID = ""
       THEN CommandResponse(cmd, FALSE, "Missing required parameters")
     ELSE IF addClientError(clientID, clientPubKey, devOK) # ""
       THEN CommandResponse(cmd, FALSE, addClientError(clientID, clientPubKey, devOK))
     ELSE CommandResponse(cmd, TRUE, "Client added successfully")

\* handleSetupExitCommand, under modeMutex held for reading.
handleSetupExitCommand(cmd, devOK) ==
  /\ IF /\ currentMode \in {ModeExit, ModeHybrid}
        /\ cmd.Payload.client_id # ""
        /\ cmd.Payload.client_pubkey # ""
        /\ cmd.Payload.session_id # ""
       THEN addClient(cmd.Payload.client_id, cmd.Payload.client_pubkey,
                      cmd.Payload.session_id, devOK)
       ELSE UNCHANGED <<activeClients, ipUsed, exitPeers>>
  /\ handling' = [cmd |-> cmd, response |-> handleSetupExitResponse(cmd, devOK)]
  /\ UNCHANGED stopTimers

\* handleRotatePeerCommand
handleRotatePeerCommand_OtherId(cmd) ==
  [CommandId |-> "", Success |-> TRUE, Message |-> "Rotate peer command handled"]

handleRotatePeerCommand(cmd) == CommandResponse(cmd, TRUE, "Rotate peer command handled")

\* handleRelaySetupCommand
handleRelaySetupCommand(cmd) == CommandResponse(cmd, TRUE, "Relay setup command handled")

\* handleDisconnectCommand: a goroutine is started that sleeps one second and
\* calls up.Stop(); the response is returned to handleCommand.
handleDisconnectCommand(cmd) ==
  /\ stopTimers' = stopTimers + 1
  /\ handling' = [cmd |-> cmd, response |-> CommandResponse(cmd, TRUE, "Disconnect command handled")]
  /\ UNCHANGED <<activeClients, ipUsed, exitPeers>>

\* handleCommand up to the return of the handler: without a handler for
\* cmd.Type a warning is logged and nothing is answered.
handleCommand(cmd, devOK) ==
  IF cmd.Type \notin commandHandlers
    THEN UNCHANGED <<activeClients, ipUsed, exitPeers, handling, stopTimers>>
  ELSE IF cmd.Type = CommandType_SETUP_EXIT THEN handleSetupExitCommand(cmd, devOK)
  ELSE IF cmd.Type = CommandType_DISCONNECT THEN handleDisconnectCommand(cmd)
  ELSE /\ handling' = [cmd |-> cmd,
                       response |-> IF cmd.Type = CommandType_ROTATE_PEER
                                      THEN handleRotatePeerCommand(cmd)
                                      ELSE handleRelaySetupCommand(cmd)]
       /\ UNCHANGED <<activeClients, ipUsed, exitPeers, stopTimers>>

\* messageHandler: stream.Recv() returned a Command; handleMessage passes it to
\* handleCommand, which runs its handler.
RecvCommand(cmd, devOK) ==
  /\ streamOpen
  /\ handling = NoCommand
  /\ received < MaxReceived
  /\ cmd.Type # CommandType_SETUP_EXIT => devOK
  /\ cmd.Type = CommandType_SETUP_EXIT => ModeRLockFree
  /\ received' = received + 1
  /\ lastReceived' = [CommandId |-> cmd.CommandId, Type |-> cmd.Type]
  /\ handleCommand(cmd, devOK)
  /\ UNCHANGED <<superVars, baseVars, poolVars, clientVars, relayVars, lockVars, currentMode, exitInterface,
                 natVars, currentExit, clientInterface, upState, peerStreamVars,
                 sent, roleUpdates, lastOp>>

\* handleCommand after the handler returned: psm.stream.Send(respMsg), whose
\* error is only logged.
SendCommandResponse ==
  /\ handling # NoCommand
  /\ sent' = Append(sent, [cmd |-> handling.cmd, response |-> handling.response,
                           ok |-> streamOpen])
  /\ handling' = NoCommand
  /\ UNCHANGED <<superVars, baseVars, poolVars, clientVars, relayVars, lockVars, currentMode, exitVars,
                 natVars, currentExit, clientInterface, upState, peerStreamVars,
                 received, lastReceived, stopTimers, roleUpdates, lastOp>>

\* UnifiedPeer.Stop: streamManager.Stop (CloseSend, conn.Close),
\* cleanupClientMode, cleanupExitMode, wgManager.Close.
StopPeer(F, delOK) ==
  /\ F \in RemoveFailures
  /\ streamOpen' = FALSE
  /\ clientInterface' = FALSE
  /\ cleanupExitMode(F, delOK)
  /\ upState' = "stopped"
  /\ lastOp' = [op |-> "Stop", clean |-> F = {} /\ delOK]

\* Stop called by the application.
UnifiedPeerStop(F, delOK) ==
  /\ upState = "running"
  /\ StopPeer(F, delOK)
  /\ UNCHANGED <<superVars, baseVars, poolVars, clientVars, relayVars, lockVars, currentMode, natVars,
                 currentExit, declaredRole, commandVars, roleUpdates>>

\* The goroutine of handleDisconnectCommand: its sleep is over, up.Stop() runs.
DeferredStop(F, delOK) ==
  /\ stopTimers > 0
  /\ stopTimers' = stopTimers - 1
  /\ StopPeer(F, delOK)
  /\ UNCHANGED <<superVars, baseVars, poolVars, clientVars, relayVars, lockVars, currentMode, natVars,
                 currentExit, declaredRole, handling, sent, received, lastReceived,
                 roleUpdates>>

\* ToggleExitMode in two steps, as the other goroutines see it.  This is the
\* first: modeMutex.Lock(), then switchToExitMode or switchToClientMode up to
\* its assignment of up.currentMode (initializeExitMode, or cleanupExitMode
\* whose RemovePeer and DeleteInterface calls may fail).  A call that finds the mode it was asked
\* for returns at once.
ToggleExitModeLock(enabled, F, delOK) ==
  /\ upState = "running"
  /\ ModeLockFree
  /\ switching = ""
  /\ IF enabled = (currentMode \in {ModeExit, ModeHybrid})
       THEN /\ F = {}
            /\ delOK
            /\ lastOp' = [op |-> IF enabled THEN "switchToExitMode" ELSE "switchToClientMode",
                          clean |-> TRUE]
            /\ UNCHANGED <<exitVars, natVars, modeMutex, switching>>
       ELSE /\ IF enabled
                 THEN /\ F = {}
                      /\ delOK
                      /\ natRules < MaxNATRules
                      /\ initializeExitMode("none")
                      /\ UNCHANGED <<activeClients, ipUsed, exitPeers>>
                 ELSE /\ F \in RemoveFailures
                      /\ cleanupExitMode(F, delOK)
                      /\ UNCHANGED natVars
            /\ modeMutex' = [modeMutex EXCEPT !.writer = TRUE]
            /\ switching' = IF enabled THEN ModeExit ELSE ModeClient
            /\ lastOp' = [op |-> IF enabled THEN "switchToExitMode" ELSE "switchToClientMode",
                          clean |-> F = {} /\ delOK]
  /\ UNCHANGED <<superVars, baseVars, poolVars, clientVars, relayVars, currentMode, currentExit,
                 clientInterface, upState, peerStreamVars, commandVars, roleUpdates,
                 admitted>>

\* The second step: up.currentMode is assigned, go up.updateSupernodeRole(),
\* and the deferred modeMutex.Unlock() runs.
ToggleExitModeUnlock ==
  /\ switching # ""
  /\ currentMode' = switching
  /\ roleUpdates' = roleUpdates + 1
  /\ modeMutex' = [modeMutex EXCEPT !.writer = FALSE]
  /\ switching' = ""
  /\ UNCHANGED <<superVars, baseVars, poolVars, clientVars, relayVars, exitVars, natVars, currentExit,
                 clientInterface, upState, peerStreamVars, commandVars, lastOp, admitted>>

\* handleSetupExitCommand in two steps.  This is the first: the reader
\* received the command, the handler holds modeMutex for reading and tests
\* the mode and the parameters; a command that fails a test is answered.
SetupExitRLock(cmd) ==
  /\ streamOpen
  /\ handling = NoCommand
  /\ admitted = NoCommand.cmd
  /\ received < MaxReceived
  /\ cmd.Type = CommandType_SETUP_EXIT
  /\ ModeRLockFree
  /\ received' = received + 1
  /\ lastReceived' = [CommandId |-> cmd.CommandId, Type |-> cmd.Type]
  /\ IF /\ currentMode \in {ModeExit, ModeHybrid}
        /\ cmd.Payload.client_id # ""
        /\ cmd.Payload.client_pubkey # ""
        /\ cmd.Payload.session_id # ""
       THEN /\ admitted' = cmd
            /\ modeMutex' = [modeMutex EXCEPT !.readers = @ + 1]
            /\ UNCHANGED handling
       ELSE /\ handling' = [cmd |-> cmd, response |-> handleSetupExitResponse(cmd, TRUE)]
            /\ UNCHANGED <<admitted, modeMutex>>
  /\ UNCHANGED <<superVars, baseVars, poolVars, clientVars, relayVars, currentMode, exitVars, natVars,
                 currentExit, clientInterface, upState, peerStreamVars, sent, stopTimers,
                 roleUpdates, lastOp, switching>>

\* The second step: addClient, the response, and the deferred
\* modeMutex.RUnlock().
SetupExitAddClient(devOK) ==
  LET clientID == admitted.Payload.client_id
      clientPubKey == admitted.Payload.client_pubkey
      error == addClientError(clientID, clientPubKey, devOK)
  IN /\ admitted # NoCommand.cmd
     /\ addClient(clientID, clientPubKey, admitted.Payload.session_id, devOK)
     /\ handling' = [cmd |-> admitted,
                     response |-> IF error # ""
                                    THEN CommandResponse(admitted, FALSE, error)
                                    ELSE CommandResponse(admitted, TRUE, "Client added successfully")]
     /\ admitted' = NoCommand.cmd
     /\ modeMutex' = [modeMutex EXCEPT !.readers = @ - 1]
     /\ UNCHANGED <<superVars, baseVars, poolVars, clientVars, relayVars, currentMode, exitInterface,
                    natVars, currentExit, clientInterface, upState, peerStreamVars, sent,
                    received, lastReceived, stopTimers, roleUpdates, lastOp, switching>>

(***************************************************************************)
(* dataplane.RelayManager                                                  *)
(***************************************************************************)

NoRule == [ClientID |-> "", ClientIP |-> "", ExitIP |-> "", ExitPort |-> 0, LocalPort |-> 0]

\* The RelayRule values SetupRelay is called with: one per client, without an
\* exit (ExitIP "", ExitPort 0) or with one.  The client's address is written
\* as its id.
RelayRules ==
  {[ClientID |-> k, ClientIP |-> k, ExitIP |-> e,
    ExitPort |-> IF e = "" THEN 0 ELSE 1, LocalPort |-> 1] : k \in ClientIds, e \in {"", "x1"}}

\* iptables -t nat -A POSTROUTING -s clientIP/32 -o ext -j MASQUERADE
MasqueradeRule(clientIP) == [chain |-> "POSTROUTING", match |-> <<"-s", clientIP>>, jump |-> "MASQUERADE"]

\* iptables -A FORWARD -s clientIP/32 -j ACCEPT
ForwardRule(clientIP) == [chain |-> "FORWARD", match |-> <<"-s", clientIP>>, jump |-> "ACCEPT"]

\* iptables -t nat -A PREROUTING -p udp --dport LocalPort -j DNAT --to-destination ExitIP:ExitPort
DNATRule(rule) == [chain |-> "PREROUTING", match |-> <<"--dport", rule.ExitIP>>, jump |-> "DNAT"]

\* iptables -A FORWARD -p udp -d ExitIP --dport ExitPort -j ACCEPT
PortForwardRule(rule) == [chain |-> "FORWARD", match |-> <<"-d", rule.ExitIP>>, jump |-> "ACCEPT"]

\* Every rule the relay manager's commands name.
FilterRules ==
  UNION {{MasqueradeRule(r.ClientIP), ForwardRule(r.ClientIP), DNATRule(r), PortForwardRule(r)} :
           r \in {x \in RelayRules : x.ExitIP # ""}}

\* iptables -A: one more copy of the rule.  iptables -D: one copy less; the
\* command fails when the chain has no such rule.
iptablesA(table, rule) == [table EXCEPT ![rule] = @ + 1]
iptablesD(table, rule) == [table EXCEPT ![rule] = @ - 1]

\* What fails in a call that runs two iptables commands: nothing, the first
\* command, or the second.
RuleFailures == {"none", "first", "second"}

\* addMasqueradeRule(clientIP): the chains it leaves and whether it failed.
addMasqueradeRule(table, clientIP, fail) ==
  LET t1 == iptablesA(table, MasqueradeRule(clientIP))
  IN IF fail = "first" THEN [table |-> table, err |-> TRUE]
     ELSE IF fail = "second" THEN [table |-> t1, err |-> TRUE]
     ELSE [table |-> iptablesA(t1, ForwardRule(clientIP)), err |-> FALSE]

\* removeMasqueradeRule(clientIP)
removeMasqueradeRule(table, clientIP, fail) ==
  LET t1 == iptablesD(table, MasqueradeRule(clientIP))
  IN IF fail = "first" \/ table[MasqueradeRule(clientIP)] = 0 THEN [table |-> table, err |-> TRUE]
     ELSE IF fail = "second" \/ t1[ForwardRule(clientIP)] = 0 THEN [table |-> t1, err |-> TRUE]
     ELSE [table |-> iptablesD(t1, ForwardRule(clientIP)), err |-> FALSE]

\* addPortForwardRule(rule)
addPortForwardRule(table, rule, fail) ==
  LET t1 == iptablesA(table, DNATRule(rule))
  IN IF fail = "first" THEN [table |-> table, err |-> TRUE]
     ELSE IF fail = "second" THEN [table |-> t1, err |-> TRUE]
     ELSE [table |-> iptablesA(t1, PortForwardRule(rule)), err |-> FALSE]

\* removePortForwardRule(rule)
removePortForwardRule(table, rule, fail) ==
  LET t1 == iptablesD(table, DNATRule(rule))
  IN IF fail = "first" \/ table[DNATRule(rule)] = 0 THEN [table |-> table, err |-> TRUE]
     ELSE IF fail = "second" \/ t1[PortForwardRule(rule)] = 0 THEN [table |-> t1, err |-> TRUE]
     ELSE [table |-> iptablesD(t1, PortForwardRule(rule)), err |-> FALSE]

\* rule.ExitIP != "" && rule.ExitPort > 0
HasExit(rule) == rule.ExitIP # "" /\ rule.ExitPort > 0

\* SetupRelay(rule), under rulesMux.  sysctlOK, mfail and pfail say what fails
\* in enableIPForwarding, addMasqueradeRule and addPortForwardRule, and undo
\* what fails in the removeMasqueradeRule that follows a failed
\* addPortForwardRule.
SetupRelay(rule, sysctlOK, mfail, pfail, undo) ==
  LET m == addMasqueradeRule(iptables, rule.ClientIP, mfail)
      p == addPortForwardRule(m.table, rule, pfail)
      u == removeMasqueradeRule(p.table, rule.ClientIP, undo)
      failed == ~sysctlOK \/ m.err \/ (HasExit(rule) /\ p.err)
  IN /\ rulesMux = ""
     /\ \A r \in FilterRules : iptables[r] < MaxRuleCopies
     /\ IF activeRules[rule.ClientID] # NoRule
          THEN /\ sysctlOK /\ mfail = "none" /\ pfail = "none" /\ undo = "none"
               /\ lastRelay' = [op |-> "SetupRelay", err |-> FALSE]
               /\ UNCHANGED <<activeRules, iptables, relayForwarding>>
          ELSE /\ ~sysctlOK => mfail = "none"
               /\ (~sysctlOK \/ m.err \/ ~HasExit(rule)) => pfail = "none"
               /\ pfail = "none" => undo = "none"
               /\ relayForwarding' = (relayForwarding \/ sysctlOK)
               /\ iptables' = IF ~sysctlOK THEN iptables
                              ELSE IF m.err \/ ~HasExit(rule) THEN m.table
                              ELSE IF p.err THEN u.table
                              ELSE p.table
               /\ activeRules' = IF failed THEN activeRules
                                 ELSE [activeRules EXCEPT ![rule.ClientID] = rule]
               /\ lastRelay' = [op |-> "SetupRelay", err |-> failed]
     /\ UNCHANGED <<superVars, baseVars, poolVars, clientVars, peerVars, rulesMux, cleanupPc>>

\* The body of RemoveRelay(clientID) from its rulesMux.Lock() on: the failures
\* of removeMasqueradeRule and removePortForwardRule are only logged.
removeRelay(clientID, mfail, pfail) ==
  LET rule == activeRules[clientID]
      m == removeMasqueradeRule(iptables, rule.ClientIP, mfail)
      p == removePortForwardRule(m.table, rule, pfail)
  IN /\ rulesMux = ""
     /\ IF rule = NoRule
          THEN /\ mfail = "none" /\ pfail = "none"
               /\ lastRelay' = [op |-> "RemoveRelay", err |-> TRUE]
               /\ UNCHANGED <<activeRules, iptables>>
          ELSE /\ ~HasExit(rule) => pfail = "none"
               /\ iptables' = IF HasExit(rule) THEN p.table ELSE m.table
               /\ activeRules' = [activeRules EXCEPT ![clientID] = NoRule]
               /\ lastRelay' = [op |-> "RemoveRelay", err |-> FALSE]
     /\ UNCHANGED <<relayForwarding, rulesMux>>

\* RemoveRelay(clientID), called from outside the relay manager.
RemoveRelay(clientID, mfail, pfail) ==
  /\ removeRelay(clientID, mfail, pfail)
  /\ UNCHANGED <<superVars, baseVars, poolVars, clientVars, peerVars, cleanupPc>>

\* Cleanup: rm.rulesMux.Lock().
CleanupLock ==
  /\ cleanupPc = "idle"
  /\ rulesMux = ""
  /\ rulesMux' = "Cleanup"
  /\ cleanupPc' = "range"
  /\ UNCHANGED <<superVars, baseVars, poolVars, clientVars, peerVars, activeRules, iptables,
                 relayForwarding, lastRelay>>

\* Cleanup, holding rulesMux: one round of its loop over rm.activeRules, which
\* calls RemoveRelay(clientID); after the loop the map is replaced by an empty
\* one and the deferred Unlock runs.
CleanupRange(mfail, pfail) ==
  /\ cleanupPc = "range"
  /\ IF \A k \in ClientIds : activeRules[k] = NoRule
       THEN /\ mfail = "none" /\ pfail = "none"
            /\ activeRules' = [k \in ClientIds |-> NoRule]
            /\ rulesMux' = ""
            /\ cleanupPc' = "idle"
            /\ lastRelay' = [op |-> "Cleanup", err |-> FALSE]
            /\ UNCHANGED <<iptables, relayForwarding>>
       ELSE /\ \E clientID \in {k \in ClientIds : activeRules[k] # NoRule} :
                 removeRelay(clientID, mfail, pfail)
            /\ UNCHANGED cleanupPc
  /\ UNCHANGED <<superVars, baseVars, poolVars, clientVars, peerVars>>

(***************************************************************************)
(* Specification                                                           *)
(***************************************************************************)

Init ==
  /\ now = 0
  /\ nextSweep = SessionSweepInterval
  /\ streams = [p \in Peers |-> NoInfo]
  /\ activeInfos = [p \in Peers |-> 0]
  /\ activeStreams = 0
  /\ authFailures = 0
  /\ pc = [s \in StreamIds |-> "recv"]
  /\ peerID = [s \in StreamIds |-> NoPeer]
  /\ authenticated = [s \in StreamIds |-> FALSE]
  /\ pending = [s \in StreamIds |-> NoPeer]
  /\ err = [s \in StreamIds |-> NoError]
  /\ tmp = [s \in StreamIds |-> 0]
  /\ sending = [s \in StreamIds |-> {}]
  /\ first = [s \in StreamIds |-> "none"]
  /\ fresh = [s \in StreamIds |-> TRUE]
  /\ status = [s \in StreamIds |-> StatusOpen]
  /\ evictedAt = [s \in StreamIds |-> -1]
  /\ dpc = [c \in Calls |-> "idle"]
  /\ dpeer = [c \in Calls |-> NoPeer]
  /\ held = [c \in Calls |-> NoInfo]
  /\ commandsProcessed = 0
  /\ ctmp = [c \in Calls |-> 0]
  /\ dcall = [c \in Calls |-> NoCall]
  /\ minted = {}
  /\ supernodes = [id \in SuperNodeIds |-> NoSuperNode]
  /\ unixNow = 0
  /\ nextCleanup = DirectorySweepInterval
  /\ removed = {}
  /\ response = NoResponse
  /\ cidr = NoCIDR
  /\ usedIPs = {}
  /\ leased = {}
  /\ lastCall = [op |-> "", ip |-> 0, ok |-> TRUE]
  /\ phase = "new"
  /\ isConnected = FALSE
  /\ reconnectDelay = BackoffInitial
  /\ lastHeartbeat = 0
  /\ clientNow = 0
  /\ connUp = FALSE
  /\ readers = 0
  /\ beaters = 0
  /\ connects = 0
  /\ stopped = FALSE
  /\ currentMode = ModeClient
  /\ activeClients = [k \in ClientIds |-> NoClient]
  /\ ipUsed = {}
  /\ exitPeers = {}
  /\ exitInterface = FALSE
  /\ clientInterface = FALSE
  /\ ipForwarding = FALSE
  /\ natRules = 0
  /\ currentExit = FALSE
  /\ upState = "new"
  /\ streamOpen = FALSE
  /\ declaredRole = ""
  /\ handling = NoCommand
  /\ sent = <<>>
  /\ received = 0
  /\ lastReceived = [CommandId |-> "", Type |-> ""]
  /\ stopTimers = 0
  /\ roleUpdates = 0
  /\ lastOp = NoOp
  /\ modeMutex = [writer |-> FALSE, readers |-> 0]
  /\ switching = ""
  /\ admitted = NoCommand.cmd
  /\ activeRules = [k \in ClientIds |-> NoRule]
  /\ iptables = [r \in FilterRules |-> 0]
  /\ relayForwarding = FALSE
  /\ rulesMux = ""
  /\ cleanupPc = "idle"
  /\ lastRelay = [op |-> "", err |-> FALSE]

\* One step of the handler of stream s; roles are the roles its peer may declare.
Handler(s, roles) ==
  \/ \E p \in Peers, role \in roles, sigOK \in BOOLEAN : RecvAuthRequest(s, p, role, sigOK)
  \/ AuthSendBegin(s)
  \/ \E ok \in BOOLEAN : AuthSendEnd(s, ok)
  \/ IncrementAuthFailures(s)
  \/ \E p \in Peers : RecvPingRequest(s, p)
  \/ RecvInfoRequest(s)
  \/ \E ok \in BOOLEAN : ReplySendEnd(s, ok)
  \/ RecvCommandResponse(s)
  \/ UpdateCommandResult(s)
  \/ RecvOther(s)
  \/ RecvEOF(s)
  \/ RecvError(s)

\* One step of the RequestExitPeer call c; clientIds are the values its
\* request's ClientId may have.
RequestExitPeer(c, clientIds) ==
  \/ \E clientId \in clientIds : SelectExit(c, clientId)
  \/ SelectHybrid(c)
  \/ SendCommandBegin(c)
  \/ SendCommandEnd(c)
  \/ CountCommand(c)

\* Streams at one instant: the handlers alone, peers declaring client or supernode.
NextStreams == \E s \in StreamIds : Handler(s, {RoleClient, RoleSuperNode})

\* Sessions over time: the handlers, the stale sweeper and the clock.
NextSessions == NextStreams \/ StaleSweep \/ Tick

\* Command dispatch: the handlers of exit and hybrid peers, and one
\* RequestExitPeer call at a time.
NextDispatch == (\E s \in StreamIds : Handler(s, {RoleExit, RoleHybrid})) \/ RequestExitPeer("c1", {"k1"})

\* The BaseNode: registrations, queries, the cleanup task and its clock.
NextDirectory ==
  \/ \E id \in SuperNodeIds, region \in Regions \cup {NoRegion}, load \in 0..MaxLoad :
       RegisterSuperNode(id, region, load, MaxLoad)
  \/ \E region \in Regions \cup {NoRegion} : RequestExitRegion(region)
  \/ ResponseReturned
  \/ CleanupStaleSupernodes
  \/ DirTick

\* An IP pool: allocations and releases, in any order.
\* The addresses ReleaseIP is called with: every used one, and one that is not
\* used (the least), since deleting an absent key does the same for each.
ReleaseArgs ==
  usedIPs \cup {a \in Addrs \ usedIPs : \A b \in Addrs \ usedIPs : a <= b}

NextPool ==
  \/ \E ip \in Addrs, len \in PrefixLens : NewIPAllocator(ip, len)
  \/ AllocateIP
  \/ \E ip \in ReleaseArgs : ReleaseIP(ip)

\* The peer's stream client, the connection's fate and the client's clock.
NextClient ==
  \/ \E ok \in BOOLEAN : Start(ok)
  \/ Stop
  \/ ConnectionLost
  \/ RecvPongResponse
  \/ RecvFailed
  \/ Heartbeat
  \/ \E ok \in BOOLEAN : Reconnect(ok)
  \/ ClientTick

\* The SETUP_EXIT commands that bring the clients, each with the client's key.
SetupCommands ==
  {Command("cmd1", CommandType_SETUP_EXIT, Payload(k, KeyOf(k), "s1", "0.0.0.0/0")) :
     k \in ClientIds}

\* The role controller: the peer's API with every outcome of its system calls,
\* its stream, and the clients SETUP_EXIT commands bring.
NextRoles ==
  \/ \E ok \in BOOLEAN, ifaceOK \in BOOLEAN : UnifiedPeerStart(ok, ifaceOK)
  \/ StreamLost
  \/ StreamReconnect
  \/ \E enabled \in BOOLEAN, fail \in InitFailures, F \in SUBSET ClientIds, delOK \in BOOLEAN :
       ToggleExitMode(enabled, fail, F, delOK)
  \/ updateSupernodeRole
  \/ ConnectToExit
  \/ DisconnectFromExit
  \/ \E cmd \in SetupCommands, devOK \in BOOLEAN : RecvCommand(cmd, devOK)
  \/ SendCommandResponse
  \/ \E F \in SUBSET ClientIds, delOK \in BOOLEAN : UnifiedPeerStop(F, delOK)

\* The commands one client's coordinator sends, replays among them.
HandlerCommands == {cmd \in Commands : cmd.Payload.client_id \in {"", "k1"}}

\* The command handlers: a started peer that may enter exit mode, the commands
\* on its stream and the goroutines its handlers start.
NextHandlers ==
  \/ UnifiedPeerStart(TRUE, TRUE)
  \/ StreamLost
  \/ ToggleExitMode(TRUE, "none", {}, TRUE)
  \/ \E cmd \in HandlerCommands, devOK \in BOOLEAN : RecvCommand(cmd, devOK)
  \/ SendCommandResponse
  \/ \E F \in SUBSET ClientIds, delOK \in BOOLEAN : DeferredStop(F, delOK)

\* Mode switches against SETUP_EXIT handling, each in its two steps.
NextModeLock ==
  \/ UnifiedPeerStart(TRUE, TRUE)
  \/ \E enabled \in BOOLEAN, F \in SUBSET ClientIds, delOK \in BOOLEAN :
       ToggleExitModeLock(enabled, F, delOK)
  \/ ToggleExitModeUnlock
  \/ updateSupernodeRole
  \/ \E cmd \in SetupCommands : SetupExitRLock(cmd)
  \/ \E devOK \in BOOLEAN : SetupExitAddClient(devOK)
  \/ SendCommandResponse

NextPeer == NextRoles \/ NextHandlers \/ NextModeLock

\* The relay manager: its calls, with every iptables command succeeding or
\* failing.
NextRelay ==
  \/ \E rule \in RelayRules, sysctlOK \in BOOLEAN, mfail \in RuleFailures,
        pfail \in RuleFailures, undo \in RuleFailures :
       SetupRelay(rule, sysctlOK, mfail, pfail, undo)
  \/ \E clientID \in ClientIds, mfail \in RuleFailures, pfail \in RuleFailures :
       RemoveRelay(clientID, mfail, pfail)
  \/ CleanupLock
  \/ \E mfail \in RuleFailures, pfail \in RuleFailures : CleanupRange(mfail, pfail)

Next ==
  \/ \E s \in StreamIds : Handler(s, PeerRole)
  \/ \E c \in Calls : RequestExitPeer(c, ClientIds)
  \/ StaleSweep
  \/ Tick
  \/ NextDirectory
  \/ NextPool
  \/ NextClient
  \/ NextPeer
  \/ NextRelay

Spec == Init /\ [][Next]_vars
SpecStreams == Init /\ [][NextStreams]_vars
SpecSessions == Init /\ [][NextSessions]_vars
SpecDispatch == Init /\ [][NextDispatch]_vars

\* Concurrent command dispatch: the handlers of exit peers, and the
\* RequestExitPeer calls the gRPC server runs side by side.
NextCommands ==
  \/ \E s \in StreamIds : Handler(s, {RoleExit})
  \/ \E c \in Calls : RequestExitPeer(c, {"k1"})

SpecCommands == Init /\ [][NextCommands]_vars
SpecDirectory == Init /\ [][NextDirectory]_vars
SpecPool == Init /\ [][NextPool]_vars
SpecClient == Init /\ [][NextClient]_vars
SpecRoles == Init /\ [][NextRoles]_vars
SpecHandlers == Init /\ [][NextHandlers]_vars
SpecModeLock == Init /\ [][NextModeLock]_vars
SpecRelay == Init /\ [][NextRelay]_vars

(***************************************************************************)
(* Properties                                                              *)
(***************************************************************************)

\* The session registered for p: its registered, active StreamInfo.
HasSession(p) == Exists(p) /\ streams[p].IsActive

\* p's session stays the registered one over the step.
SessionKept(p) == streams'[p].ID = streams[p].ID /\ streams'[p].IsActive

\* The handler of stream s returns in this step.
Returns(s) == pc[s] # "done" /\ pc'[s] = "done"

\* The stale sweeper runs in this step.
Sweeps == nextSweep' # nextSweep

\* Another stream than the one p's session came through has a handler that
\* authenticated as p: the older stream of a peer id that was registered again.
OlderHandler(p, t) ==
  /\ HasSession(p)
  /\ t # streams[p].Stream
  /\ authenticated[t]
  /\ peerID[t] = p

\* C1: in every reachable state of the Stream Manager, whatever the interleaving
\* of registrations, unregistrations and stale sweeps, at most one StreamInfo of
\* each peer id is active.
C1_AtMostOneActiveSession == \A p \in Peers : activeInfos[p] <= 1

\* C1 witness: p was registered a second time through another stream while the
\* first registrant's handler is still running, and one session is active.
C1_Witness ==
  \E p \in Peers, t \in StreamIds : OlderHandler(p, t) /\ activeInfos[p] = 1

\* C2: once a peer id was registered again through a second stream, the new
\* session stays registered and active until its own stream's handler returns,
\* the sweeper evicts it as stale or a still newer registration replaces it,
\* whatever the older stream's handler does.
C2_NewStreamWins ==
  [][\A p \in Peers :
       (\E t \in StreamIds : OlderHandler(p, t)) =>
         \/ SessionKept(p)
         \/ Returns(streams[p].Stream)
         \/ Sweeps /\ p \in StalePeers(SessionStaleTimeout)
         \/ streams'[p].ID # 0 /\ streams'[p].IsActive]_vars

\* C3: whatever message other than an AuthRequest comes first on a stream, the
\* handler ends the stream with Unauthenticated instead of reading on.
C3_FirstMessageMustBeAuthRequest ==
  [][\A s \in StreamIds :
       (fresh[s] /\ ~fresh'[s] /\ pc'[s] \notin {"authSend", "incr"}) =>
         status'[s] = StatusUnauthenticated]_vars

\* C4: an AuthRequest whose signature does not verify creates no session, ends
\* the stream with Unauthenticated and raises auth_failures_total by exactly 1.
C4_BadSignatureCountedOnce ==
  [][\A s \in StreamIds :
       /\ (pc[s] = "recv" /\ err'[s] = ErrSignature) => streams' = streams
       /\ (err[s] = ErrSignature /\ Returns(s)) =>
            /\ status'[s] = StatusUnauthenticated
            /\ authFailures' = authFailures + 1
            /\ streams' = streams]_vars

\* C5: an AuthRequest whose role is not client, exit or hybrid is rejected with
\* InvalidArgument, and no session is created for it.
C5_InvalidRoleIsInvalidArgument ==
  [][\A s \in StreamIds :
       /\ (pc[s] = "recv" /\ err'[s] = ErrInvalidRole) => streams' = streams
       /\ (err[s] = ErrInvalidRole /\ Returns(s)) =>
            /\ status'[s] = StatusInvalidArgument
            /\ streams' = streams]_vars

\* C6: the first frame sent on any stream is its AuthResponse.
C6_AuthResponseIsFirstFrame ==
  \A s \in StreamIds : first[s] \in {"none", "AuthResponse"}

\* C7: at no moment are two Sends in progress on the same stream.
C7_SendsSerialized == \A s \in StreamIds : Cardinality(sending[s]) <= 1

\* C8 (second half): a session whose last heartbeat is older than
\* SessionStaleTimeout + SessionSweepInterval is no longer in the registry.
C8_NoSessionPastDeadline ==
  \A p \in Peers :
    HasSession(p) => now - streams[p].LastHeartbeat <= SessionStaleTimeout + SessionSweepInterval

\* C8 (first half): a sweep marks inactive and removes exactly the sessions with
\* now - LastHeartbeat > SessionStaleTimeout and leaves every other one untouched.
C8_SweepEvictsExactlyStale ==
  \A p \in Peers :
    IF HasSession(p) /\ now - streams[p].LastHeartbeat > SessionStaleTimeout
      THEN ~Exists(p)' /\ activeInfos'[p] = activeInfos[p] - 1
      ELSE streams'[p] = streams[p] /\ activeInfos'[p] = activeInfos[p]

C9_EvictionClosesTransport ==
  \A s \in StreamIds :
    (evictedAt[s] >= 0 /\ now - evictedAt[s] >= SessionSweepInterval) => pc[s] = "done"

\* C10: after the handler of a stream returned, the registry holds no active
\* session that was registered through that stream.
C10_CloseDestroysSessions ==
  \A s \in StreamIds :
    pc[s] = "done" => \A p \in Peers : ~(HasSession(p) /\ streams[p].Stream = s)

\* The call c leaves SendCommandToPeer in this step with the error of a peer
\* that has no active stream.
ReturnsNoStream(c) == dpc[c] = "send" /\ dpc'[c] = "idle"

\* The call c leaves SendCommandToPeer in this step after a successful Send.
ReturnsSent(c) == dpc[c] = "count" /\ dpc'[c] = "idle"

\* C11: SendCommandToPeer for a peer without an active session returns the
\* error, sends no frame and leaves commands_processed_total as it was; a
\* dispatch whose Send succeeded raises commands_processed_total by exactly 1.
C11_CommandsCounted ==
  [][\A c \in Calls :
       /\ (dpc[c] = "send" /\ dpc'[c] # "send" /\ GetStream(dpeer[c]).ID = 0) =>
            /\ ReturnsNoStream(c)
            /\ sending' = sending /\ first' = first
            /\ commandsProcessed' = commandsProcessed
       /\ ReturnsSent(c) => commandsProcessed' = commandsProcessed + 1]_vars

\* C12: sm.activeStreams, the active_streams_total gauge, equals the number of
\* active sessions in the registry.
C12_GaugeMatchesRegistry ==
  activeStreams = Cardinality({p \in Peers : HasSession(p)})

\* A RequestExitRegion call computes its response in this step.
Responds == response = NoResponse /\ response' # NoResponse

\* The list c has the entry sn.
Lists(c, sn) == \E k \in 1..Len(c) : c[k] = sn

\* C13: the response to a query for a region lists an entry of the directory if
\* and only if its region is the requested one, its last heartbeat is less than
\* DirectoryQueryFreshness old and its load is below its capacity; it lists
\* nothing else and nothing twice.
C13_CandidatesExactlyEligible ==
  [][Responds =>
       LET c == response'.CandidateSupernodes
           region == response'.TargetRegion
       IN /\ \A id \in SuperNodeIds :
               Registered(id) =>
                 (Lists(c, supernodes[id]) <=>
                    /\ supernodes[id].Region = region
                    /\ unixNow - supernodes[id].LastHeartbeat < DirectoryQueryFreshness
                    /\ supernodes[id].CurrentLoad < supernodes[id].MaxCapacity)
          /\ \A k \in 1..Len(c) : c[k].SupernodeId \in SuperNodeIds
                                   /\ c[k] = supernodes[c[k].SupernodeId]
          /\ \A k, l \in 1..Len(c) : c[k] = c[l] => k = l]_vars

\* C13 witness: a response lists a coordinator of the region while another one of
\* the same region, below its capacity, is still in the directory but left out
\* because its heartbeat is DirectoryQueryFreshness old or older.
C13_Witness ==
  /\ response # NoResponse
  /\ Len(response.CandidateSupernodes) >= 1
  /\ \E id \in SuperNodeIds :
       /\ Registered(id)
       /\ supernodes[id].Region = response.TargetRegion
       /\ supernodes[id].CurrentLoad < supernodes[id].MaxCapacity
       /\ unixNow - supernodes[id].LastHeartbeat >= DirectoryQueryFreshness
       /\ unixNow - supernodes[id].LastHeartbeat <= DirectoryTTL
       /\ ~Lists(response.CandidateSupernodes, supernodes[id])

\* Coordinator identifiers in ascending order.
IdOrder == <<"sn1", "sn2">>
IdBefore(a, b) == \E i, j \in 1..Len(IdOrder) : i < j /\ IdOrder[i] = a /\ IdOrder[j] = b

\* C14: the candidates of a response are in ascending order of load and, where
\* loads are equal, in ascending order of coordinator identifier.
C14_SortedByLoadThenId ==
  LET c == response.CandidateSupernodes
  IN \A k \in 1..(Len(c) - 1) :
       \/ c[k].CurrentLoad < c[k + 1].CurrentLoad
       \/ c[k].CurrentLoad = c[k + 1].CurrentLoad /\ IdBefore(c[k].SupernodeId, c[k + 1].SupernodeId)

\* The cleanup task runs in this step.
CleansUp == nextCleanup' # nextCleanup

\* C15 (first half): a cleanup removes exactly the entries whose last heartbeat
\* is more than DirectoryTTL old and leaves every other entry as it is, so an
\* entry re-registered within every DirectoryTTL is never removed.
C15_CleanupEvictsExactlyStale ==
  \A id \in SuperNodeIds :
    IF Registered(id) /\ unixNow - supernodes[id].LastHeartbeat > DirectoryTTL
      THEN ~Registered(id)'
      ELSE supernodes'[id] = supernodes[id]

\* C15 (second half): no entry of the directory has a last heartbeat older than
\* DirectoryTTL + DirectorySweepInterval.
C15_NoEntryPastDeadline ==
  \A id \in SuperNodeIds :
    Registered(id) =>
      unixNow - supernodes[id].LastHeartbeat <= DirectoryTTL + DirectorySweepInterval

\* C15: each cleanup evicts exactly the entries not re-registered for more than
\* DirectoryTTL, so that an entry that is never re-registered is out of the
\* directory once DirectoryTTL + DirectorySweepInterval have passed.
C15_DirectorySweep ==
  [][CleansUp => C15_CleanupEvictsExactlyStale]_vars /\ []C15_NoEntryPastDeadline

\* C15 witness: a cleanup has just removed an entry while leaving in place one
\* whose last heartbeat is exactly DirectoryTTL old.
C15_Witness ==
  /\ removed # {}
  /\ nextCleanup = unixNow + DirectorySweepInterval
  /\ \E id \in SuperNodeIds :
       Registered(id) /\ unixNow - supernodes[id].LastHeartbeat = DirectoryTTL

\* The number of addresses of the pool's CIDR.
PoolSize == Pow2(AddrBits - cidr.Len)

\* The addresses of the pool's CIDR are those that agree with its address in
\* the prefix bits: the least is the network address, the greatest the
\* broadcast address.
PoolNetwork == (cidr.IP \div PoolSize) * PoolSize
PoolBroadcast == PoolNetwork + PoolSize - 1
PoolBlock == PoolNetwork..PoolBroadcast
PoolHosts == PoolBlock \ {PoolNetwork, PoolBroadcast}

\* An AllocateIP call returns in this step.
Allocates == lastCall'.op = "AllocateIP" /\ <<lastCall, usedIPs>>' # <<lastCall, usedIPs>>

\* C16: an address AllocateIP returns is an address of the pool's CIDR that is
\* not leased at that moment (returned before and not released since), and is
\* neither the network nor the broadcast address of the CIDR.
C16_NoDoubleAllocation ==
  [][(Allocates /\ lastCall'.ok) =>
       /\ lastCall'.ip \in PoolBlock
       /\ lastCall'.ip \notin leased
       /\ lastCall'.ip \notin {PoolNetwork, PoolBroadcast}]_vars

\* C16 witness: an address released earlier has been returned again while other
\* addresses of the pool are leased.
C16_Witness ==
  /\ lastCall.op = "AllocateIP" /\ lastCall.ok
  /\ \E a \in leased : a > lastCall.ip
  /\ Cardinality(PoolHosts) >= 3

\* C17: AllocateIP fails exactly when every address of the CIDR other than the
\* network and the broadcast address is in the used-set, and a failed call
\* leaves the used-set as it was.
C17_ExhaustedExactlyWhenFull ==
  [][Allocates =>
       /\ ~lastCall'.ok <=> PoolHosts \subseteq usedIPs
       /\ ~lastCall'.ok => usedIPs' = usedIPs]_vars

\* C17 witness: a pool with host addresses is full and AllocateIP has failed.
C17_Witness ==
  /\ lastCall.op = "AllocateIP" /\ ~lastCall.ok
  /\ PoolHosts # {} /\ usedIPs = PoolHosts

\* C18: once Stop() has returned, the client never connects again: no connect()
\* succeeds and isConnected does not become true.
C18_StopIsTerminal ==
  [][stopped => (connects' = connects /\ (isConnected' => isConnected))]_vars

\* Twice the delay, but at most BackoffCeiling.
DoubledUpToCeiling(delay) ==
  IF 2 * delay <= BackoffCeiling THEN 2 * delay ELSE BackoffCeiling

\* C19: the reconnect delay never exceeds BackoffCeiling; a failed connect()
\* doubles it up to that ceiling, and a successful one sets it to BackoffInitial.
C19_BackoffDelay ==
  [][/\ reconnectDelay' <= BackoffCeiling
     /\ connects' # connects => reconnectDelay' = BackoffInitial
     /\ (connects' = connects /\ reconnectDelay' # reconnectDelay) =>
          reconnectDelay' = DoubledUpToCeiling(reconnectDelay)]_vars

\* The time without a PongResponse after which the client is to disconnect.
HeartbeatMissBudget == 3 * HeartbeatInterval

\* C20: a client that received no PongResponse for more than
\* HeartbeatMissBudget is Disconnected, at the latest one HeartbeatInterval
\* after the budget ran out.
C20_MissedPongsDisconnect ==
  isConnected => clientNow - lastHeartbeat <= HeartbeatMissBudget + HeartbeatInterval


\* C21: a client that was started, is not Connected and was not stopped has a
\* reconnect loop that retries after the backoff delay, so that it reaches
\* Connected again; this includes a first dial or authentication that failed
\* in Start().
C21_DisconnectedRetries ==
  (phase # "new" /\ ~isConnected /\ ~stopped) => phase = "running"


\* The step in which the reader receives a command.
Receives == received' # received

\* The step in which handleCommand calls stream.Send.
Sends == Len(sent') = Len(sent) + 1

C23_ReplaySameResponse ==
  \A i \in DOMAIN sent, j \in DOMAIN sent :
    (i < j /\ sent[i].cmd = sent[j].cmd /\ sent[i].response.Success)
      => sent[j].response = sent[i].response

\* C24: the teardown a DISCONNECT handler defers (Stop: CloseSend, conn.Close,
\* the cleanup of both modes) never begins while the response to a DISCONNECT
\* command is still to be sent.
C24_ResponseBeforeTeardown ==
  [][stopTimers' < stopTimers =>
       ~(handling # NoCommand /\ handling.cmd.Type = CommandType_DISCONNECT)]_vars


\* C27: the exit handler never answers "Missing required parameters" to a
\* SETUP_EXIT command that RequestExitPeer built: the command carries
\* client_id, client_pubkey, session_id and allowed_ips.
C27_SetupExitCarriesParameters ==
  \A i \in DOMAIN sent :
    (\E id \in CommandIds, k \in ClientIds : sent[i].cmd = setupCommand(id, k))
      => /\ sent[i].cmd.Payload.client_pubkey # ""
         /\ sent[i].response.Message # "Missing required parameters"

\* C28: once the role updates a mode switch started have run, the role the
\* peer declared on its open stream is the role of its current mode.
C28_RoleReasserted ==
  (upState = "running" /\ streamOpen /\ roleUpdates = 0)
    => declaredRole = (IF currentMode = ModeExit THEN RoleExit
                       ELSE IF currentMode = ModeHybrid THEN RoleHybrid
                       ELSE RoleClient)

\* C29: a peer in exit mode that connects to an exit ends in mode hybrid.
C29_HybridReachable ==
  [][(currentMode = ModeExit /\ lastOp' # lastOp /\ lastOp'.op = "ConnectToExit")
       => currentMode' = ModeHybrid]_vars

\* C30: leaving exit mode, with every system call of the cleanup succeeding,
\* leaves no exit-side peer entry, no allocated address, no NAT rule and no
\* exit interface.
C30_ExitModeReversible ==
  [][(currentMode # ModeClient /\ currentMode' = ModeClient /\ lastOp'.clean)
       => /\ \A k \in ClientIds : activeClients'[k] = NoClient
          /\ ipUsed' = {}
          /\ exitPeers' = {}
          /\ ~exitInterface'
          /\ natRules' = 0]_vars


\* Peer ids in ascending order.
PeerOrder == <<"p1", "p2">>
PeerBefore(a, b) == \E i, j \in 1..Len(PeerOrder) : i < j /\ PeerOrder[i] = a /\ PeerOrder[j] = b

\* The peers with an active session of role exit or hybrid.
ExitSessions ==
  {p \in Peers : streams[p].ID # 0 /\ streams[p].IsActive
                   /\ streams[p].Role \in {RoleExit, RoleHybrid}}

\* C26: RequestExitPeer selects, among the active exit and hybrid sessions,
\* the one with the fewest active allocations and, among equals, the one with
\* the least peer id.  Before any command has gone out no session has an
\* allocation, so the selected peer is the one with the least id.
C26_LeastLoadedThenLeastId ==
  [][\A c \in Calls :
       (commandsProcessed = 0 /\ dpeer[c] = NoPeer /\ dpeer'[c] # NoPeer)
         => \A p \in ExitSessions : ~PeerBefore(p, dpeer'[c])]_vars


\* C25: RequestExitPeer answers Success: true only when a CommandResponse of
\* the selected exit peer has come in on that peer's stream: at the step in
\* which the call returns success, the handler of the stream the command went
\* out on has a CommandResponse in hand.
C25_SuccessOnlyAfterResponse ==
  [][\A c \in Calls :
       (dpc[c] = "count" /\ dpc'[c] = "idle") => pc[held[c].Stream] = "result"]_vars


\* C34: at any time the stream client runs at most one reader loop
\* (messageHandler) and at most one heartbeat loop, across disconnects and
\* reconnects of a client that was not stopped.
C34_OneReaderOneHeartbeat ==
  ~stopped => (readers <= 1 /\ beaters <= 1)


\* C35: a PingRequest received on the stream that authenticated as peer A
\* refreshes the session of A only, whatever peer_id the ping carries.
C35_PingRefreshesOwnSession ==
  [][\A s \in StreamIds, q \in Peers :
       (pc[s] = "recv" /\ pc'[s] = "pongSending" /\ streams'[q] # streams[q])
         => q = peerID[s]]_vars


\* C36: whenever the unified peer's mode is client, its set of active
\* exit-side clients is empty and its exit address pool has no address in use,
\* also after a switch to client mode in which removing a peer entry failed.
C36_ClientModeHoldsNoClients ==
  currentMode = ModeClient => (ActiveIds = {} /\ ipUsed = {})


\* C38: an address allocated to a client is never the exit interface's own
\* address.
C38_NeverTheInterfaceAddress ==
  \A k \in ClientIds :
    activeClients[k] # NoClient => activeClients[k].AllocatedIP # ExitInterfaceIP


\* C40: a switch to exit mode that fails in initializeExitMode leaves the mode
\* unchanged and leaves none of the exit-side data-plane state it made (the
\* interface, IP forwarding, the NAT rule).
C40_FailedSwitchLeavesNothing ==
  [][(currentMode = ModeClient /\ lastOp'.op = "switchToExitMode" /\ ~lastOp'.clean)
       => (currentMode' = ModeClient /\ UNCHANGED <<exitInterface, ipForwarding, natRules>>)]_vars


\* The step in which a client is added: activeClients gains an entry.
AddsClient == \E k \in ClientIds : activeClients[k] = NoClient /\ activeClients'[k] # NoClient

\* C31: role transitions are serialized against SETUP_EXIT handling: in every
\* interleaving of the steps of a mode toggle with the steps of a SETUP_EXIT
\* handler, a client is added (address allocated, peer entry made) only while
\* the mode is exit or hybrid, and a SETUP_EXIT received in client mode is
\* answered success = false and changes no state.
C31_TogglesSerializedWithSetupExit ==
  [][/\ AddsClient => (currentMode \in {ModeExit, ModeHybrid} /\ currentMode' = currentMode)
     /\ (Receives /\ currentMode = ModeClient)
          => /\ handling' # NoCommand
             /\ ~handling'.response.Success
             /\ handling'.response.CommandId = lastReceived'.CommandId
             /\ UNCHANGED <<currentMode, exitVars, natVars, modeMutex, admitted>>
    ]_vars

\* C31 witness: a SETUP_EXIT was refused in client mode, and another one
\* added a client in exit mode, after which a toggle back to client mode holds
\* the mutex with its cleanup done and the mode not yet set.
C31_Witness ==
  /\ Len(sent) = 1
  /\ ~sent[1].response.Success
  /\ sent[1].response.Message = "Peer is not in exit mode"
  /\ received = 2
  /\ handling # NoCommand
  /\ handling.response.Success
  /\ modeMutex.writer
  /\ switching = ModeClient
  /\ currentMode = ModeExit


\* C37: the used-set of the exit address pool is exactly the set of addresses
\* of the active clients, and no two active clients hold the same address,
\* whether the data-plane calls of additions, removals and toggles succeed or
\* fail.
C37_PoolMatchesActiveClients ==
  /\ ipUsed = {activeClients[k].AllocatedIP : k \in {j \in ClientIds : activeClients[j] # NoClient}}
  /\ \A j, k \in ClientIds :
       (j # k /\ activeClients[j] # NoClient /\ activeClients[k] # NoClient)
         => activeClients[j].AllocatedIP # activeClients[k].AllocatedIP

\* C37 witness: an addition failed in AddPeer, the next one got the address
\* the failed one had released, and in the cleanup of a switch to client mode
\* RemovePeer failed for that client: it is still active and its address is
\* the only one in use.
C37_Witness ==
  /\ \E i \in DOMAIN sent : sent[i].response.Message = "failed to add peer to WireGuard"
  /\ lastOp = [op |-> "switchToClientMode", clean |-> FALSE]
  /\ Cardinality({k \in ClientIds : activeClients[k] # NoClient}) = 1
  /\ ipUsed = {ExitInterfaceIP}


\* C32: every successful exit allocation mints a session id distinct from
\* every id minted before, also when RequestExitPeer is called again with the
\* same request and selects the same exit peer.
C32_SessionIdsDistinct ==
  [][\A c \in Calls :
       (dpc[c] = "count" /\ dpc'[c] = "idle") => dcall[c].SessionId \notin minted]_vars


\* C33: a SetupRelay call that fails at any step, also part-way through the
\* masquerade/forward rules or the DNAT/port-forward rules, leaves none of
\* the packet-filter rules it installed and records no relay rule as active.
C33_FailedSetupLeavesNoRule ==
  [][(lastRelay'.op = "SetupRelay" /\ lastRelay'.err)
       => UNCHANGED <<iptables, activeRules>>]_vars


\* C39: a Cleanup call that has begun can always take its next step, so that
\* with finitely many active relay rules it returns, whatever their number.
C39_CleanupProceeds ==
  cleanupPc = "range" => ENABLED (\E mfail \in RuleFailures, pfail \in RuleFailures : CleanupRange(mfail, pfail))

====
